---- MODULE Spec2Model ----
(***************************************************************************)
(* The round engine of SanctSim: Environment.run_round, the two           *)
(* institutions and the agents' round state (src/code/environment.py,     *)
(* institution.py, agent.py), with the three response parsers of agent.py *)
(* as operators.                                                          *)
(*                                                                        *)
(* Payoffs are Python floats.  They are kept here as exact rationals with *)
(* the common denominator Scale, so a payoff p is stored as p * Scale.    *)
(* Contributions, token counts and received effects are Python ints and   *)
(* are stored unscaled.                                                   *)
(***************************************************************************)
EXTENDS Integers, Sequences, FiniteSets, TLC

\* ------------------------------------------------------------- bounds
NumAgents == 3
NumRounds == 3
\* rounds of the long runs, enough to fill the anonymized history window
LongRounds == 7
\* the most entries an allocation response under test holds
MaxEntries == 3
\* the largest magnitude of a contribution value under test
MaxValue == 30
\* the most entries a response holds in the runs on the shared budget
BudgetMaxEntries == 4
\* Simulations started side by side, the seconds the clock can show and the
\* allocation requests each of them makes.
NumProcesses == 2
MaxClock == 1
MaxRequests == 3
\* the run configurations a sweep is left with after its filters, and the
\* worker threads of the sweep (max_parallel_jobs)
NumRuns == 3
MaxParallelJobs == 2

\* ------------------------------------------------- parameters.py
INITIAL_TOKENS == 1000
ENDOWMENT_STAGE_1 == 20
ENDOWMENT_STAGE_2 == 20
\* PUBLIC_GOOD_MULTIPLIER = 1.6, as the fraction 16 / 10
PUBLIC_GOOD_MULTIPLIER_NUM == 16
PUBLIC_GOOD_MULTIPLIER_DEN == 10
MIN_CONTRIBUTION == 0
MAX_CONTRIBUTION == ENDOWMENT_STAGE_1
PUNISHMENT_EFFECT == 3
PUNISHMENT_COST == 1
REWARD_EFFECT == 1
REWARD_COST == 1
DISPLAY_PAST_ACTIONS == 5

\* ------------------------------------------------------------ helpers
RECURSIVE Factorial(_)
Factorial(n) == IF n <= 1 THEN 1 ELSE n * Factorial(n - 1)

\* Common denominator of every payoff: the multiplier's denominator times
\* every possible institution size.
Scale == PUBLIC_GOOD_MULTIPLIER_DEN * Factorial(NumAgents)

Max(a, b) == IF a >= b THEN a ELSE b
Min(a, b) == IF a <= b THEN a ELSE b

\* A Python dict keyed by agent id: a function on a finite set of ids.
EmptyDict == [x \in {} |-> 0]
DictPut(d, k, v) == [x \in (DOMAIN d) \cup {k} |-> IF x = k THEN v ELSE d[x]]

\* sum(d.values())
RECURSIVE SumValues(_)
SumValues(d) ==
    IF DOMAIN d = {} THEN 0
    ELSE LET k == CHOOSE x \in DOMAIN d : TRUE
         IN d[k] + SumValues([x \in (DOMAIN d) \ {k} |-> d[x]])

\* sum([...]) over a list
RECURSIVE SumSeq(_)
SumSeq(s) == IF s = << >> THEN 0 ELSE Head(s) + SumSeq(Tail(s))

\* The agents, agent_id = 0 .. NUM_AGENTS - 1, in population order.
AgentIds == 0 .. (NumAgents - 1)
AgentList == [i \in 1 .. NumAgents |-> i - 1]

\* -------------------------------------------------- oracle responses
\* A response is text.  json |-> FALSE is text from which json.loads gets
\* no object; json |-> TRUE is text holding one object with the fields
\* given.  A JSON value is [t, v]: t = "int" the integer v, t = "float"
\* the decimal v / 10, t = "str" the string of the digits of v,
\* t = "bad" a value int() rejects (null, a word, a list), t = "missing"
\* an absent key.
Val(t, v) == [t |-> t, v |-> v]
Missing == Val("missing", 0)
Bad == Val("bad", 0)

\* int(x): truncation toward zero for a float, the number for a numeric
\* string, an exception (ok = FALSE) for anything else.
IntOf(x) ==
    CASE x.t = "int" -> [ok |-> TRUE, v |-> x.v]
      [] x.t = "str" -> [ok |-> TRUE, v |-> x.v]
      [] x.t = "float" ->
            [ok |-> TRUE,
             v |-> IF x.v >= 0 THEN x.v \div 10 ELSE 0 - ((0 - x.v) \div 10)]
      [] OTHER -> [ok |-> FALSE, v |-> 0]

\* str.upper() on the institution_choice strings the oracle may give.
Upper(s) ==
    CASE s = "si" -> "SI"
      [] s = "sfi" -> "SFI"
      [] s = "Si" -> "SI"
      [] OTHER -> s

\* parse_institution_choice_response without the else branch that turns an
\* unclear choice into 'SFI': the property InstitutionChoiceDefaults tells
\* it from the method.
parse_institution_choice_response_undefaulted(response) ==
    IF ~response.json \/ response.institution_choice = "null"
    THEN [raised |-> FALSE,
          institution_choice |-> "SFI", institution_reasoning |-> ""]
    ELSE [raised |-> FALSE,
          institution_choice |-> Upper(response.institution_choice),
          institution_reasoning |-> response.reasoning]

\* Agent.parse_institution_choice_response: the new institution_choice
\* and institution_reasoning.  A choice that is not a string (here
\* "null") makes .upper() raise, which the except clause catches.
\* raised tells whether an exception leaves the method: its whole body is
\* inside try / except Exception, so none does.  The same holds for the
\* other two parsers.
parse_institution_choice_response(response) ==
    IF ~response.json \/ response.institution_choice = "null"
    THEN [raised |-> FALSE,
          institution_choice |-> "SFI", institution_reasoning |-> ""]
    ELSE LET institution_choice == Upper(response.institution_choice)
         IN [raised |-> FALSE,
             institution_choice |->
                 IF institution_choice \in {"SI", "SFI"}
                 THEN institution_choice ELSE "SFI",
             institution_reasoning |-> response.reasoning]

\* parse_contribution_response whose except branch returns the whole
\* endowment instead of half of it: the property ContributionDefault tells
\* it from the method.
parse_contribution_response_whole_default(response) ==
    IF ~response.json
    THEN [raised |-> FALSE,
          contribution |-> ENDOWMENT_STAGE_1, contribution_reasoning |-> ""]
    ELSE LET given == IF response.contribution.t = "missing"
                      THEN Val("int", ENDOWMENT_STAGE_1 \div 2)
                      ELSE response.contribution
             n == IntOf(given)
         IN IF ~n.ok
            THEN [raised |-> FALSE,
                  contribution |-> ENDOWMENT_STAGE_1,
                  contribution_reasoning |-> ""]
            ELSE [raised |-> FALSE,
                  contribution |->
                      Max(MIN_CONTRIBUTION, Min(n.v, MAX_CONTRIBUTION)),
                  contribution_reasoning |-> response.reasoning]

\* parse_contribution_response without its max / min line: the property
\* ContributionWithinLimits tells it from the method.
parse_contribution_response_unclamped(response) ==
    IF ~response.json
    THEN [raised |-> FALSE,
          contribution |-> ENDOWMENT_STAGE_1 \div 2, contribution_reasoning |-> ""]
    ELSE LET given == IF response.contribution.t = "missing"
                      THEN Val("int", ENDOWMENT_STAGE_1 \div 2)
                      ELSE response.contribution
             n == IntOf(given)
         IN IF ~n.ok
            THEN [raised |-> FALSE,
                  contribution |-> ENDOWMENT_STAGE_1 \div 2,
                  contribution_reasoning |-> ""]
            ELSE [raised |-> FALSE,
                  contribution |-> n.v,
                  contribution_reasoning |-> response.reasoning]

\* Agent.parse_contribution_response: the returned contribution and the
\* new contribution_reasoning.
parse_contribution_response(response) ==
    IF ~response.json
    THEN [raised |-> FALSE,
          contribution |-> ENDOWMENT_STAGE_1 \div 2, contribution_reasoning |-> ""]
    ELSE LET given == IF response.contribution.t = "missing"
                      THEN Val("int", ENDOWMENT_STAGE_1 \div 2)
                      ELSE response.contribution
             n == IntOf(given)
         IN IF ~n.ok
            THEN [raised |-> FALSE,
                  contribution |-> ENDOWMENT_STAGE_1 \div 2,
                  contribution_reasoning |-> ""]
            ELSE [raised |-> FALSE,
                  contribution |->
                      Max(MIN_CONTRIBUTION, Min(n.v, MAX_CONTRIBUTION)),
                  contribution_reasoning |-> response.reasoning]

\* A key of the punishments / rewards object: form "plain" is the digits
\* of n, "spaced" the digits with blanks around them, "quoted" the digits
\* inside an extra pair of quotes, "text" a key that is no integer.
\* clean_agent_key strips the blanks and the quotes; int() then gives n,
\* or raises ValueError for "text".
Key(form, n) == [form |-> form, n |-> n]
clean_agent_key(key) ==
    IF key.form \in {"spaced", "quoted"} THEN Key("plain", key.n) ELSE key
KeyInt(key) ==
    LET clean_key == clean_agent_key(key)
    IN IF clean_key.form = "plain"
       THEN [ok |-> TRUE, v |-> clean_key.n]
       ELSE [ok |-> FALSE, v |-> 0]

\* The loop body in which an alias out of range still has its amount
\* converted and taken off the budget: the property
\* UnresolvableAliasesSkipped tells it from the method.
process_entry_charging_skipped(st, entry, members) ==
    LET agent_num == KeyInt(entry.key)
        num_agents == Len(members)
    IN IF ~agent_num.ok THEN st
       ELSE LET t == IntOf(entry.tokens)
            IN IF ~t.ok THEN [st EXCEPT !.status = "raise"]
               ELSE LET tokens == Max(0, Min(t.v, st.tokens_remaining))
                        remaining == st.tokens_remaining - tokens
                    IN [alloc |-> IF 1 <= agent_num.v /\ agent_num.v <= num_agents
                                  THEN DictPut(st.alloc, members[agent_num.v], tokens)
                                  ELSE st.alloc,
                        tokens_remaining |-> remaining,
                        status |-> IF remaining <= 0 THEN "break" ELSE "run"]

\* The loop body with every amount capped by the whole endowment instead
\* of by tokens_remaining: the property AllocationsWithinBudget tells it
\* from the method.
process_entry_capped_per_entry(st, entry, members) ==
    LET agent_num == KeyInt(entry.key)
        num_agents == Len(members)
    IN IF ~agent_num.ok THEN st
       ELSE IF ~(1 <= agent_num.v /\ agent_num.v <= num_agents) THEN st
       ELSE LET t == IntOf(entry.tokens)
            IN IF ~t.ok THEN [st EXCEPT !.status = "raise"]
               ELSE LET tokens == Max(0, Min(t.v, ENDOWMENT_STAGE_2))
                        agent_id == members[agent_num.v]
                        remaining == st.tokens_remaining - tokens
                    IN [alloc |-> DictPut(st.alloc, agent_id, tokens),
                        tokens_remaining |-> remaining,
                        status |-> IF remaining <= 0 THEN "break" ELSE "run"]

\* The loop body that records an amount under the alias number instead of
\* under members[alias].agent_id: the property TargetsAreSiMembers tells it
\* from the method.
process_entry_keyed_by_alias(st, entry, members) ==
    LET agent_num == KeyInt(entry.key)
        num_agents == Len(members)
    IN IF ~agent_num.ok THEN st
       ELSE IF ~(1 <= agent_num.v /\ agent_num.v <= num_agents) THEN st
       ELSE LET t == IntOf(entry.tokens)
            IN IF ~t.ok THEN [st EXCEPT !.status = "raise"]
               ELSE LET tokens == Max(0, Min(t.v, st.tokens_remaining))
                        remaining == st.tokens_remaining - tokens
                    IN [alloc |-> DictPut(st.alloc, agent_num.v, tokens),
                        tokens_remaining |-> remaining,
                        status |-> IF remaining <= 0 THEN "break" ELSE "run"]

\* The body of the two loops of parse_punishment_response, on one entry
\* <<key, tokens>>.  st = [alloc, tokens_remaining, status]; status is
\* "run", "break" (the loop's break) or "raise" (int(tokens) raised).
process_entry(st, entry, members) ==
    LET agent_num == KeyInt(entry.key)
        num_agents == Len(members)
    IN IF ~agent_num.ok THEN st
       ELSE IF ~(1 <= agent_num.v /\ agent_num.v <= num_agents) THEN st
       ELSE LET t == IntOf(entry.tokens)
            IN IF ~t.ok THEN [st EXCEPT !.status = "raise"]
               ELSE LET tokens == Max(0, Min(t.v, st.tokens_remaining))
                        agent_id == members[agent_num.v]
                        remaining == st.tokens_remaining - tokens
                    IN [alloc |-> DictPut(st.alloc, agent_id, tokens),
                        tokens_remaining |-> remaining,
                        status |-> IF remaining <= 0 THEN "break" ELSE "run"]

\* One for loop over the items of a mapping, from its i-th entry on.
RECURSIVE process_entries(_, _, _, _)
process_entries(st, entries, i, members) ==
    IF i > Len(entries) \/ st.status # "run" THEN st
    ELSE process_entries(process_entry(st, entries[i], members), entries, i + 1, members)

\* parse_punishment_response that does not enter the rewards loop once the
\* punishments have used the budget up: the property
\* ExhaustionKeepsFirstReward tells it from the method.
parse_punishment_response_dropping_rewards(response, members) ==
    LET failed == [raised |-> FALSE,
                   punishment_allocations |-> EmptyDict,
                   reward_allocations |-> EmptyDict,
                   punishment_reasoning |-> ""]
    IN IF ~response.json \/ response.badmap THEN failed
       ELSE LET p == process_entries(
                        [alloc |-> EmptyDict,
                         tokens_remaining |-> ENDOWMENT_STAGE_2,
                         status |-> "run"],
                        response.punishments, 1, members)
                r == process_entries(
                        [alloc |-> EmptyDict,
                         tokens_remaining |-> p.tokens_remaining,
                         status |-> p.status],
                        response.rewards, 1, members)
            IN IF p.status = "raise" \/ r.status = "raise" THEN failed
               ELSE [raised |-> FALSE,
                     punishment_allocations |-> p.alloc,
                     reward_allocations |-> r.alloc,
                     punishment_reasoning |-> response.reasoning]

\* parse_punishment_response with a budget of its own for the rewards: the
\* property SharedBudget tells it from the method.
parse_punishment_response_two_budgets(response, members) ==
    LET failed == [raised |-> FALSE,
                   punishment_allocations |-> EmptyDict,
                   reward_allocations |-> EmptyDict,
                   punishment_reasoning |-> ""]
    IN IF ~response.json \/ response.badmap THEN failed
       ELSE LET p == process_entries(
                        [alloc |-> EmptyDict,
                         tokens_remaining |-> ENDOWMENT_STAGE_2,
                         status |-> "run"],
                        response.punishments, 1, members)
                r == process_entries(
                        [alloc |-> EmptyDict,
                         tokens_remaining |-> ENDOWMENT_STAGE_2,
                         status |-> IF p.status = "raise" THEN "raise" ELSE "run"],
                        response.rewards, 1, members)
            IN IF p.status = "raise" \/ r.status = "raise" THEN failed
               ELSE [raised |-> FALSE,
                     punishment_allocations |-> p.alloc,
                     reward_allocations |-> r.alloc,
                     punishment_reasoning |-> response.reasoning]

\* parse_punishment_response with json.loads outside the try block, so
\* that text holding no object raises out of the method: the property
\* MalformedResponsesTolerated tells it from the method.
parse_punishment_response_unguarded(response, members) ==
    LET failed == [raised |-> FALSE,
                   punishment_allocations |-> EmptyDict,
                   reward_allocations |-> EmptyDict,
                   punishment_reasoning |-> ""]
    IN IF ~response.json THEN [failed EXCEPT !.raised = TRUE]
       ELSE IF response.badmap THEN failed
       ELSE LET p == process_entries(
                        [alloc |-> EmptyDict,
                         tokens_remaining |-> ENDOWMENT_STAGE_2,
                         status |-> "run"],
                        response.punishments, 1, members)
                r == process_entries(
                        [alloc |-> EmptyDict,
                         tokens_remaining |-> p.tokens_remaining,
                         status |-> IF p.status = "raise" THEN "raise" ELSE "run"],
                        response.rewards, 1, members)
            IN IF p.status = "raise" \/ r.status = "raise" THEN failed
               ELSE [raised |-> FALSE,
                     punishment_allocations |-> p.alloc,
                     reward_allocations |-> r.alloc,
                     punishment_reasoning |-> response.reasoning]

\* parse_punishment_response whose except branch returns the allocations
\* made before int(tokens) raised: the property BadAmountEmptiesResult
\* tells it from the method.
parse_punishment_response_keeping_processed(response, members) ==
    LET failed == [raised |-> FALSE,
                   punishment_allocations |-> EmptyDict,
                   reward_allocations |-> EmptyDict,
                   punishment_reasoning |-> ""]
    IN IF ~response.json \/ response.badmap THEN failed
       ELSE LET p == process_entries(
                        [alloc |-> EmptyDict,
                         tokens_remaining |-> ENDOWMENT_STAGE_2,
                         status |-> "run"],
                        response.punishments, 1, members)
                r == process_entries(
                        [alloc |-> EmptyDict,
                         tokens_remaining |-> p.tokens_remaining,
                         status |-> IF p.status = "raise" THEN "raise" ELSE "run"],
                        response.rewards, 1, members)
            IN [raised |-> FALSE,
                punishment_allocations |-> p.alloc,
                reward_allocations |-> r.alloc,
                punishment_reasoning |->
                    IF p.status = "raise" \/ r.status = "raise"
                    THEN "" ELSE response.reasoning]

\* Agent.parse_punishment_response: the two allocation dicts returned and
\* the new punishment_reasoning.  members is group_state['members'] (agent
\* ids).  A punishments or rewards value that is no object (badmap) makes
\* .items() raise.
parse_punishment_response(response, members) ==
    LET failed == [raised |-> FALSE,
                   punishment_allocations |-> EmptyDict,
                   reward_allocations |-> EmptyDict,
                   punishment_reasoning |-> ""]
    IN IF ~response.json \/ response.badmap THEN failed
       ELSE LET p == process_entries(
                        [alloc |-> EmptyDict,
                         tokens_remaining |-> ENDOWMENT_STAGE_2,
                         status |-> "run"],
                        response.punishments, 1, members)
                r == process_entries(
                        [alloc |-> EmptyDict,
                         tokens_remaining |-> p.tokens_remaining,
                         status |-> IF p.status = "raise" THEN "raise" ELSE "run"],
                        response.rewards, 1, members)
            IN IF p.status = "raise" \/ r.status = "raise" THEN failed
               ELSE [raised |-> FALSE,
                     punishment_allocations |-> p.alloc,
                     reward_allocations |-> r.alloc,
                     punishment_reasoning |-> response.reasoning]

\* ------------------------------------------------------------ state
VARIABLES
    agents,          \* Environment.agents: agent_id -> the Agent's fields
    si,              \* Environment.si, a SanctioningInstitution
    sfi,             \* Environment.sfi, a SanctionFreeInstitution
    current_round,   \* Environment.current_round
    num_rounds,      \* parameters.NUM_ROUNDS, as set from --num-rounds
    results,         \* Environment.results (Environment.history holds the same records)
    pc,              \* the statement of run_simulation / run_round to execute next
    idx,             \* the position of the running for loop in its list (1-based)
    oracle,          \* the decision oracle: agent_id -> its answers, stage by stage
    update_count,    \* history: calls of update_payoff per agent in this round
    decided,         \* history: agents whose assign_punishment has been recorded this round
    credited,        \* history: agents apply_punishments_and_rewards has credited this round
    probe,           \* the parser under test: its input, loop state and result
    main             \* main(): its position after run_simulation and what it saved

vars == <<agents, si, sfi, current_round, num_rounds, results, pc, idx, oracle,
          update_count, decided, credited, probe, main>>
engine_vars == <<agents, si, sfi, current_round, num_rounds, results, pc, idx,
                 oracle, update_count, decided, credited, main>>

\* current_round_anonymous_data: None, or the list staged by the environment.
None == [is_none |-> TRUE, data |-> << >>]
Staged(list) == [is_none |-> FALSE, data |-> list]

\* Agent.__init__
Agent(agent_id) ==
    [agent_id |-> agent_id,
     institution_choice |-> "None",
     contribution |-> 0,
     cumulative_payoff |-> INITIAL_TOKENS * Scale,
     round_payoff |-> 0,
     history |-> << >>,
     current_group |-> "None",
     received_punishments |-> 0,
     received_rewards |-> 0,
     assigned_punishments |-> EmptyDict,
     assigned_rewards |-> EmptyDict,
     round_number |-> 0,
     institution_reasoning |-> "",
     contribution_reasoning |-> "",
     punishment_reasoning |-> "",
     anonymous_data_history |-> << >>,
     current_round_anonymous_data |-> None,
     anonymized_id_mapping |-> << >>]

\* Institution.__init__ / SanctioningInstitution.__init__ (the matrices
\* stay empty in the sanction-free institution, which never writes them).
Institution ==
    [members |-> << >>,
     total_contribution |-> 0,
     group_size |-> 0,
     round_number |-> 0,
     stage1_payoffs |-> EmptyDict,
     anonymized_contributions |-> << >>,
     punishment_matrix |-> EmptyDict,
     reward_matrix |-> EmptyDict]

\* ------------------------------------------------------- agent.py
\* reset_for_new_round without the move of the staged batch into
\* anonymous_data_history: the property ResetMovesStagedBatch tells it from
\* the method.
reset_for_new_round_without_move(ag) ==
    [ag EXCEPT
       !.current_round_anonymous_data = None,
       !.contribution = 0,
       !.received_punishments = 0,
       !.received_rewards = 0,
       !.assigned_punishments = EmptyDict,
       !.assigned_rewards = EmptyDict,
       !.current_group = "None",
       !.round_payoff = 0,
       !.institution_reasoning = "",
       !.contribution_reasoning = "",
       !.punishment_reasoning = "",
       !.anonymized_id_mapping = << >>]

\* reset_for_new_round that drops the newest entry instead of the oldest
\* when the history is full: the property AnonymizedHistoryWindow tells it
\* from the method.
reset_for_new_round_keeping_oldest(ag) ==
    LET appended == Append(ag.anonymous_data_history,
                           [round_number |-> ag.round_number,
                            anonymous_data |-> ag.current_round_anonymous_data.data])
        moved == IF ag.current_round_anonymous_data.is_none
                 THEN ag.anonymous_data_history
                 ELSE IF Len(appended) > DISPLAY_PAST_ACTIONS
                      THEN SubSeq(appended, 1, DISPLAY_PAST_ACTIONS) ELSE appended
    IN [ag EXCEPT
          !.anonymous_data_history = moved,
          !.current_round_anonymous_data = None,
          !.contribution = 0,
          !.received_punishments = 0,
          !.received_rewards = 0,
          !.assigned_punishments = EmptyDict,
          !.assigned_rewards = EmptyDict,
          !.current_group = "None",
          !.round_payoff = 0,
          !.institution_reasoning = "",
          !.contribution_reasoning = "",
          !.punishment_reasoning = "",
          !.anonymized_id_mapping = << >>]

\* reset_for_new_round that leaves what the agent assigned and received in
\* the round before: the property SfiMembersUnsanctioned tells it from the
\* method.
reset_for_new_round_keeping_sanctions(ag) ==
    LET appended == Append(ag.anonymous_data_history,
                           [round_number |-> ag.round_number,
                            anonymous_data |-> ag.current_round_anonymous_data.data])
        moved == IF ag.current_round_anonymous_data.is_none
                 THEN ag.anonymous_data_history
                 ELSE IF Len(appended) > DISPLAY_PAST_ACTIONS
                      THEN Tail(appended) ELSE appended
    IN [ag EXCEPT
          !.anonymous_data_history = moved,
          !.current_round_anonymous_data = None,
          !.contribution = 0,
          !.current_group = "None",
          !.round_payoff = 0,
          !.institution_reasoning = "",
          !.contribution_reasoning = "",
          !.punishment_reasoning = "",
          !.anonymized_id_mapping = << >>]

\* Agent.reset_for_new_round
reset_for_new_round(ag) ==
    LET appended == Append(ag.anonymous_data_history,
                           [round_number |-> ag.round_number,
                            anonymous_data |-> ag.current_round_anonymous_data.data])
        moved == IF ag.current_round_anonymous_data.is_none
                 THEN ag.anonymous_data_history
                 ELSE IF Len(appended) > DISPLAY_PAST_ACTIONS
                      THEN Tail(appended) ELSE appended
    IN [ag EXCEPT
          !.anonymous_data_history = moved,
          !.current_round_anonymous_data = None,
          !.contribution = 0,
          !.received_punishments = 0,
          !.received_rewards = 0,
          !.assigned_punishments = EmptyDict,
          !.assigned_rewards = EmptyDict,
          !.current_group = "None",
          !.round_payoff = 0,
          !.institution_reasoning = "",
          !.contribution_reasoning = "",
          !.punishment_reasoning = "",
          !.anonymized_id_mapping = << >>]

\* Agent.get_past_actions_string: the fields it prints of the last
\* DISPLAY_PAST_ACTIONS entries of the agent's history.
PastActionFields ==
    {"round_number", "institution_choice", "institution_reasoning", "contribution",
     "contribution_reasoning", "stage1_payoff", "stage2_payoff", "payoff",
     "received_punishments", "received_rewards", "assigned_punishments",
     "assigned_rewards", "punishment_reasoning", "rank"}
get_past_actions_string(ag) ==
    LET first == Max(1, Len(ag.history) - DISPLAY_PAST_ACTIONS + 1)
    IN [i \in 1 .. (Len(ag.history) - first + 1) |->
           [field \in PastActionFields |-> ag.history[first + i - 1][field]]]

\* Agent.construct_institution_choice_prompt: what the prompt shows of the
\* program's state.
construct_institution_choice_prompt(ag, round_number) ==
    [round_number |-> round_number,
     cumulative_payoff |-> ag.cumulative_payoff,
     past_actions |-> get_past_actions_string(ag),
     anonymous_data |-> ag.anonymous_data_history]

\* Agent.construct_contribution_prompt: what the prompt shows of the
\* program's state; group_state is not read.
construct_contribution_prompt(ag, group_state) ==
    [round_number |-> ag.round_number,
     institution |-> ag.institution_choice,
     cumulative_payoff |-> ag.cumulative_payoff,
     past_actions |-> get_past_actions_string(ag),
     anonymous_data |-> ag.anonymous_data_history]

\* Agent.choose_institution, on the oracle's response
choose_institution(ag, round_number, response) ==
    LET parsed == parse_institution_choice_response(response)
    IN [ag EXCEPT
          !.round_number = round_number,
          !.institution_choice = parsed.institution_choice,
          !.institution_reasoning = parsed.institution_reasoning]

\* Agent.decide_contribution, on the oracle's response
decide_contribution(ag, response) ==
    LET parsed == parse_contribution_response(response)
    IN [ag EXCEPT
          !.contribution = parsed.contribution,
          !.contribution_reasoning = parsed.contribution_reasoning]

\* Agent.construct_punishment_prompt: what the prompt shows of the
\* program's state; of the members in group_state it reads the
\* contribution, in the order of the list.
punishment_prompt(ag, members, ags) ==
    [round_number |-> ag.round_number,
     institution |-> ag.institution_choice,
     cumulative_payoff |-> ag.cumulative_payoff,
     past_actions |-> get_past_actions_string(ag),
     contributions |-> [i \in 1 .. Len(members) |-> ags[members[i]].contribution],
     anonymous_data |-> ag.anonymous_data_history]

\* The alias mapping numbering the members shown from the last to the
\* first: the property AliasMappingBijection tells it from the method.
construct_punishment_prompt_reversed(members) ==
    [i \in 1 .. Len(members) |-> members[Len(members) + 1 - i]]

\* Agent.construct_punishment_prompt: the alias mapping of this call,
\* anonymized number i + 1 -> agent_id of the i-th member shown.
construct_punishment_prompt(members) ==
    [i \in 1 .. Len(members) |-> members[i]]

\* Agent.assign_punishment, on the oracle's response
assign_punishment(ag, response, members) ==
    LET parsed == parse_punishment_response(response, members)
    IN [ag EXCEPT
          !.anonymized_id_mapping = construct_punishment_prompt(members),
          !.punishment_reasoning = parsed.punishment_reasoning,
          !.assigned_punishments = parsed.punishment_allocations,
          !.assigned_rewards = parsed.reward_allocations]

\* update_payoff storing the round's amount instead of adding it: the
\* property CumulativePayoffAccounting tells it from the method.
update_payoff_overwriting(ag, amount) ==
    [ag EXCEPT !.round_payoff = amount,
               !.cumulative_payoff = amount]

\* Agent.update_payoff
update_payoff(ag, amount) ==
    [ag EXCEPT !.round_payoff = amount,
               !.cumulative_payoff = ag.cumulative_payoff + amount]

\* Agent.update_history
update_history(ag, round_data) ==
    [ag EXCEPT !.history = Append(ag.history, round_data)]

\* Agent.receive_punishment and Agent.receive_reward
receive_punishment(ag, amount) ==
    [ag EXCEPT !.received_punishments = ag.received_punishments + amount]
receive_reward(ag, amount) ==
    [ag EXCEPT !.received_rewards = ag.received_rewards + amount]

\* Agent.get_stage1_payoff sharing the public good among the whole
\* population instead of the institution's group_size: the property
\* StageOnePayoff tells it from the method.
get_stage1_payoff_over_population(ag, group_size, total_group_contribution) ==
    LET tokens_kept == ENDOWMENT_STAGE_1 - ag.contribution
        earnings_from_public_good ==
            IF group_size > 0
            THEN (Scale * PUBLIC_GOOD_MULTIPLIER_NUM * total_group_contribution)
                     \div (PUBLIC_GOOD_MULTIPLIER_DEN * NumAgents)
            ELSE 0
    IN Scale * tokens_kept + earnings_from_public_good

\* Agent.get_stage1_payoff, times Scale
get_stage1_payoff(ag, group_size, total_group_contribution) ==
    LET tokens_kept == ENDOWMENT_STAGE_1 - ag.contribution
        earnings_from_public_good ==
            IF group_size > 0
            THEN (Scale * PUBLIC_GOOD_MULTIPLIER_NUM * total_group_contribution)
                     \div (PUBLIC_GOOD_MULTIPLIER_DEN * group_size)
            ELSE 0
    IN Scale * tokens_kept + earnings_from_public_good

\* Agent.get_stage2_payoff that leaves the tokens spent out: the property
\* StageTwoPayoff tells it from the method.
get_stage2_payoff_without_cost(ag) ==
    ENDOWMENT_STAGE_2 + ag.received_rewards - ag.received_punishments

\* Agent.get_stage2_payoff (an int, not scaled)
get_stage2_payoff(ag) ==
    LET tokens_spent == SumValues(ag.assigned_punishments) * PUNISHMENT_COST
                        + SumValues(ag.assigned_rewards) * REWARD_COST
        tokens_remaining == ENDOWMENT_STAGE_2 - tokens_spent
    IN tokens_remaining + ag.received_rewards - ag.received_punishments

\* ------------------------------------------------- institution.py
\* Institution.add_member
add_member(inst, agent_id) == [inst EXCEPT !.members = Append(inst.members, agent_id)]

\* reset_institution that keeps the members of the round before: the
\* property OneInstitutionPerAgent tells it from the method.
reset_institution_keeping_members(inst, round_number) ==
    [inst EXCEPT
       !.total_contribution = 0,
       !.group_size = 0,
       !.round_number = round_number,
       !.stage1_payoffs = EmptyDict,
       !.anonymized_contributions = << >>,
       !.punishment_matrix = EmptyDict,
       !.reward_matrix = EmptyDict]

\* reset_institution without the two assignments of the sanctioning
\* variant, so that the matrices of a round stay for the next: the property
\* RoundsStartClean tells it from the method.
reset_institution_keeping_matrices(inst, round_number) ==
    [inst EXCEPT
       !.members = << >>,
       !.total_contribution = 0,
       !.group_size = 0,
       !.round_number = round_number,
       !.stage1_payoffs = EmptyDict,
       !.anonymized_contributions = << >>]

\* Institution.reset_institution and SanctioningInstitution.reset_institution
reset_institution(inst, round_number) ==
    [inst EXCEPT
       !.members = << >>,
       !.total_contribution = 0,
       !.group_size = 0,
       !.round_number = round_number,
       !.stage1_payoffs = EmptyDict,
       !.anonymized_contributions = << >>,
       !.punishment_matrix = EmptyDict,
       !.reward_matrix = EmptyDict]

\* Institution.collect_contributions, the statements before its loop
collect_contributions_begin(inst) ==
    [inst EXCEPT
       !.total_contribution = 0,
       !.group_size = Len(inst.members),
       !.anonymized_contributions = << >>]

\* The loop body with = in place of +=: the property ContributionTotals
\* tells it from the method.
collect_contribution_overwriting(inst, contribution) ==
    [inst EXCEPT
       !.total_contribution = contribution,
       !.anonymized_contributions = Append(inst.anonymized_contributions, contribution)]

\* Institution.collect_contributions, the loop body after the member decided
collect_contribution(inst, contribution) ==
    [inst EXCEPT
       !.total_contribution = inst.total_contribution + contribution,
       !.anonymized_contributions = Append(inst.anonymized_contributions, contribution)]

\* Institution.distribute_public_goods
distribute_public_goods(inst, ags) ==
    [inst EXCEPT !.stage1_payoffs =
        [a \in {inst.members[i] : i \in 1 .. Len(inst.members)} |->
            get_stage1_payoff(ags[a], inst.group_size, inst.total_contribution)]]

\* Institution.get_average_contribution, times Scale
get_average_contribution(inst) ==
    IF inst.group_size > 0
    THEN (Scale * inst.total_contribution) \div inst.group_size
    ELSE 0

\* get_group_state that leaves the requesting agent among the members
\* shown to it: the property EmptyAndLoneInstitutions tells it from the
\* method.
get_group_state_with_requester(inst, requesting_agent) == inst.members

\* SanctioningInstitution.get_group_state: group_state['members'], the
\* members other than the requesting agent, in membership order.
get_group_state(inst, requesting_agent) ==
    SelectSeq(inst.members, LAMBDA m : m # requesting_agent)

\* Institution.get_group_state: the dict handed to a deciding member.
base_get_group_state(inst, requesting_agent) ==
    [members |-> inst.members,
     anonymized_contributions |-> inst.anonymized_contributions,
     group_size |-> inst.group_size,
     round_number |-> inst.round_number]

\* SanctioningInstitution.get_group_state: the same dict with the
\* requesting agent taken out of 'members'.
sanctioning_get_group_state(inst, requesting_agent) ==
    [base_get_group_state(inst, requesting_agent) EXCEPT
        !.members = get_group_state(inst, requesting_agent)]

\* The recording loops replacing the target's row by the deciding member's
\* cell (matrix[target] = {actor: tokens}), which loses what earlier
\* members gave that target: the property AssignedTokensConserved tells
\* them from the method.
record_allocations_replacing_row(matrix, allocations, actor) ==
    [target \in (DOMAIN matrix) \cup (DOMAIN allocations) |->
        IF target \in DOMAIN allocations
        THEN DictPut(EmptyDict, actor, allocations[target])
        ELSE matrix[target]]

\* The recording loops writing the cell of the target itself instead of
\* the deciding member's: the property OrderIndependentDecisions tells them
\* from the method.
record_allocations_under_target(matrix, allocations, actor) ==
    [target \in (DOMAIN matrix) \cup (DOMAIN allocations) |->
        IF target \in DOMAIN allocations
        THEN DictPut(IF target \in DOMAIN matrix THEN matrix[target] ELSE EmptyDict,
                     target, allocations[target])
        ELSE matrix[target]]

\* The recording loops of handle_punishments_and_rewards:
\* matrix[target][actor] = tokens for every item of allocations.
record_allocations(matrix, allocations, actor) ==
    [target \in (DOMAIN matrix) \cup (DOMAIN allocations) |->
        IF target \in DOMAIN allocations
        THEN DictPut(IF target \in DOMAIN matrix THEN matrix[target] ELSE EmptyDict,
                     actor, allocations[target])
        ELSE matrix[target]]

\* The sum over the cells whose actor is agent_id, the tokens it gave
\* instead of those it was given: the property PayoffFallsOnlyByPunishment
\* tells it from the method.
RECURSIVE tokens_given_to(_, _, _)
tokens_given_to(matrix, targets, agent_id) ==
    IF targets = {} THEN 0
    ELSE LET target == CHOOSE t \in targets : TRUE
         IN (IF agent_id \in DOMAIN matrix[target] THEN matrix[target][agent_id] ELSE 0)
            + tokens_given_to(matrix, targets \ {target}, agent_id)
total_tokens_given(matrix, agent_id) ==
    tokens_given_to(matrix, DOMAIN matrix, agent_id)

\* apply_punishments_and_rewards: sum(matrix[agent_id].values()), or 0
total_tokens(matrix, agent_id) ==
    IF agent_id \in DOMAIN matrix THEN SumValues(matrix[agent_id]) ELSE 0

\* ------------------------------------------------- the decision oracle
\* What api_client.send_request returns is outside the program.  Each
\* agent's oracle is a script: for each of the three decisions a list of
\* responses, used round after round in a cycle.
InstResponse(choice) ==
    [json |-> TRUE, institution_choice |-> choice, reasoning |-> "because"]
MalformedInst == [json |-> FALSE, institution_choice |-> "", reasoning |-> ""]
ContribResponse(contribution) ==
    [json |-> TRUE, contribution |-> contribution, reasoning |-> "because"]
MalformedContrib == [json |-> FALSE, contribution |-> Missing, reasoning |-> ""]
Entry(key, tokens) == [key |-> key, tokens |-> tokens]
AllocResponse(punishments, rewards) ==
    [json |-> TRUE, badmap |-> FALSE, punishments |-> punishments,
     rewards |-> rewards, reasoning |-> "because"]
BadMapAlloc ==
    [json |-> TRUE, badmap |-> TRUE, punishments |-> << >>,
     rewards |-> << >>, reasoning |-> "because"]
MalformedAlloc ==
    [json |-> FALSE, badmap |-> FALSE, punishments |-> << >>,
     rewards |-> << >>, reasoning |-> ""]

Profiles ==
    { \* joins SI, contributes everything, punishes its first peer
      [choice |-> <<InstResponse("SI")>>,
       contribution |-> <<ContribResponse(Val("int", 20))>>,
       allocation |-> <<AllocResponse(
                           <<Entry(Key("plain", 1), Val("int", 5))>>, << >>)>>],
      \* asks for more than the budget and for contributions out of range
      [choice |-> <<InstResponse("SI"), InstResponse("si"), InstResponse("SFI")>>,
       contribution |-> <<ContribResponse(Val("int", 25)),
                          ContribResponse(Val("int", -5))>>,
       allocation |-> <<AllocResponse(
                           <<Entry(Key("plain", 1), Val("int", 15)),
                             Entry(Key("plain", 2), Val("int", 10))>>,
                           <<Entry(Key("plain", 1), Val("int", 5)),
                             Entry(Key("plain", 2), Val("int", 3))>>),
                        AllocResponse(
                           << >>, <<Entry(Key("plain", 1), Val("int", 30))>>)>>],
      \* answers with text that holds no object, at every stage
      [choice |-> <<MalformedInst, InstResponse("SI")>>,
       contribution |-> <<MalformedContrib>>,
       allocation |-> <<MalformedAlloc>>],
      \* stays in SFI and contributes nothing
      [choice |-> <<InstResponse("SFI")>>,
       contribution |-> <<ContribResponse(Val("int", 0))>>,
       allocation |-> <<MalformedAlloc>>],
      \* unclear choice, missing and fractional contribution, several keys
      \* for one peer, unknown aliases, negative amounts
      [choice |-> <<InstResponse("both"), InstResponse("Si")>>,
       contribution |-> <<ContribResponse(Missing),
                          ContribResponse(Val("float", 127))>>,
       allocation |-> <<AllocResponse(
                           <<Entry(Key("plain", 1), Val("int", 8)),
                             Entry(Key("spaced", 1), Val("int", 6)),
                             Entry(Key("text", 0), Val("int", 3))>>,
                           <<Entry(Key("quoted", 2), Val("int", -4)),
                             Entry(Key("plain", 0), Val("int", 5)),
                             Entry(Key("plain", 1), Val("float", 29))>>)>>],
      \* values int() rejects
      [choice |-> <<InstResponse("SI"), InstResponse("null")>>,
       contribution |-> <<ContribResponse(Bad),
                          ContribResponse(Val("str", 15))>>,
       allocation |-> <<AllocResponse(
                           <<Entry(Key("plain", 1), Val("int", 4)),
                             Entry(Key("plain", 2), Bad)>>, << >>),
                        BadMapAlloc>>] }

\* An oracle whose answer moves along the script with the number of agents
\* already enrolled in SI in the round: the property OrderIndependentStageOne
\* tells it from send_request.
send_request_seeing_enrolment(agent_id, decision) ==
    LET script == oracle[agent_id][decision]
    IN script[((current_round - 1 + Len(si.members)) % Len(script)) + 1]

\* api_client.send_request for agent_id at the given decision
send_request(agent_id, decision) ==
    LET script == oracle[agent_id][decision]
    IN script[((current_round - 1) % Len(script)) + 1]

\* ------------------------------------------------- environment.py
\* handle_punishments_and_rewards in one phase, crediting each target as
\* soon as the member has decided: the property DecideBeforeApply tells it
\* from the method.
handle_punishments_and_rewards_crediting(ags, inst, agent_id, response) ==
    LET group_state == get_group_state(inst, agent_id)
        ag == assign_punishment(ags[agent_id], response, group_state)
        decided_ags == [ags EXCEPT ![agent_id] = ag]
    IN [agents |->
            [a \in DOMAIN decided_ags |->
                receive_reward(
                    receive_punishment(
                        decided_ags[a],
                        IF a \in DOMAIN ag.assigned_punishments
                        THEN ag.assigned_punishments[a] * PUNISHMENT_EFFECT ELSE 0),
                    IF a \in DOMAIN ag.assigned_rewards
                    THEN ag.assigned_rewards[a] * REWARD_EFFECT ELSE 0)],
        si |-> [inst EXCEPT
                  !.punishment_matrix =
                      record_allocations(@, ag.assigned_punishments, agent_id),
                  !.reward_matrix =
                      record_allocations(@, ag.assigned_rewards, agent_id)]]

\* One iteration of the loop of handle_punishments_and_rewards, for the
\* member agent_id: the agents and the institution after it.
handle_punishments_and_rewards(ags, inst, agent_id, response) ==
    LET group_state == get_group_state(inst, agent_id)
        ag == assign_punishment(ags[agent_id], response, group_state)
    IN [agents |-> [ags EXCEPT ![agent_id] = ag],
        si |-> [inst EXCEPT
                  !.punishment_matrix =
                      record_allocations(@, ag.assigned_punishments, agent_id),
                  !.reward_matrix =
                      record_allocations(@, ag.assigned_rewards, agent_id)]]

\* The iteration that credits the tokens themselves, without the effect
\* multipliers: the property ReceivedTotals tells it from the method.
apply_punishments_and_rewards_tokens_only(ags, inst, agent_id) ==
    [ags EXCEPT ![agent_id] =
        receive_reward(receive_punishment(@, total_tokens(inst.punishment_matrix, agent_id)),
                       total_tokens(inst.reward_matrix, agent_id))]

\* One iteration of the loop of apply_punishments_and_rewards, for the
\* member agent_id: the agents after it.
apply_punishments_and_rewards(ags, inst, agent_id) ==
    LET total_punishment_effect ==
            total_tokens(inst.punishment_matrix, agent_id) * PUNISHMENT_EFFECT
        total_reward_effect ==
            total_tokens(inst.reward_matrix, agent_id) * REWARD_EFFECT
    IN [ags EXCEPT ![agent_id] =
           receive_reward(receive_punishment(@, total_punishment_effect),
                          total_reward_effect)]

\* dict.get(agent_id, 0) on stage1_payoffs
stage1_payoffs_get(inst, agent_id) ==
    IF agent_id \in DOMAIN inst.stage1_payoffs THEN inst.stage1_payoffs[agent_id] ELSE 0

\* The iteration that hands update_payoff the stage-one payoff alone: the
\* property RecordedPayoffsAddUp tells it from the method.
calculate_payoffs_si_stage_one_only(ags, inst, agent_id) ==
    [ags EXCEPT ![agent_id] = update_payoff(@, stage1_payoffs_get(inst, agent_id))]

\* One iteration of the first loop of calculate_payoffs (a member of SI)
calculate_payoffs_si(ags, inst, agent_id) ==
    LET stage1_payoff == stage1_payoffs_get(inst, agent_id)
        stage2_payoff == Scale * get_stage2_payoff(ags[agent_id])
    IN [ags EXCEPT ![agent_id] = update_payoff(@, stage1_payoff + stage2_payoff)]

\* One iteration of the second loop of calculate_payoffs (a member of SFI)
calculate_payoffs_sfi(ags, inst, agent_id) ==
    LET stage1_payoff == stage1_payoffs_get(inst, agent_id)
        stage2_payoff == Scale * ENDOWMENT_STAGE_2
    IN [ags EXCEPT ![agent_id] = update_payoff(@, stage1_payoff + stage2_payoff)]

\* An insertion that puts an item before the items of equal payoff, as an
\* unstable descending sort may: the property RanksOrdered tells it from
\* sorted().
RECURSIVE insert_sorted_before_equals(_, _)
insert_sorted_before_equals(sorted, item) ==
    IF sorted = << >> THEN <<item>>
    ELSE IF Head(sorted)[2] > item[2]
         THEN <<Head(sorted)>> \o insert_sorted_before_equals(Tail(sorted), item)
         ELSE <<item>> \o sorted

\* sorted(items, key = cumulative payoff, reverse = True): Python's sort is
\* stable, also with reverse = True, so an item goes after every item
\* whose payoff is at least its own.
RECURSIVE insert_sorted(_, _)
insert_sorted(sorted, item) ==
    IF sorted = << >> THEN <<item>>
    ELSE IF Head(sorted)[2] >= item[2]
         THEN <<Head(sorted)>> \o insert_sorted(Tail(sorted), item)
         ELSE <<item>> \o sorted
RECURSIVE sorted_payoffs(_, _)
sorted_payoffs(items, n) ==
    IF n = 0 THEN << >>
    ELSE insert_sorted(sorted_payoffs(items, n - 1), items[n])

\* record_round_history: agent_ranks
agent_ranks(ags) ==
    LET items == [i \in 1 .. NumAgents |-> <<AgentList[i], ags[AgentList[i]].cumulative_payoff>>]
        sorted == sorted_payoffs(items, NumAgents)
    IN [agent_id \in AgentIds |->
           CHOOSE rank \in 1 .. NumAgents : sorted[rank][1] = agent_id]

\* record_round_history: agent_data of one agent; rank is the pair
\* <<rank, total_agents>> that the code formats as "<rank> out of <total>".
agent_data(ag, ranks) ==
    LET in_si == ag.institution_choice = "SI"
        stage1_payoff == IF in_si THEN stage1_payoffs_get(si, ag.agent_id)
                         ELSE stage1_payoffs_get(sfi, ag.agent_id)
        stage2_payoff == IF in_si THEN Scale * get_stage2_payoff(ag)
                         ELSE Scale * ENDOWMENT_STAGE_2
    IN [institution_choice |-> ag.institution_choice,
        institution_reasoning |-> ag.institution_reasoning,
        contribution |-> ag.contribution,
        contribution_reasoning |-> ag.contribution_reasoning,
        stage1_payoff |-> stage1_payoff,
        stage2_payoff |-> stage2_payoff,
        payoff |-> stage1_payoff + stage2_payoff,
        cumulative_payoff |-> ag.cumulative_payoff,
        received_punishments |-> ag.received_punishments,
        received_rewards |-> ag.received_rewards,
        assigned_punishments |-> ag.assigned_punishments,
        assigned_rewards |-> ag.assigned_rewards,
        punishment_reasoning |-> ag.punishment_reasoning,
        rank |-> <<ranks[ag.agent_id], NumAgents>>]

\* record_round_history: round_data
round_data(ags) ==
    LET ranks == agent_ranks(ags)
    IN [round_number |-> current_round,
        si_members |-> si.members,
        sfi_members |-> sfi.members,
        si_total_contribution |-> si.total_contribution,
        sfi_total_contribution |-> sfi.total_contribution,
        si_avg_contribution |-> get_average_contribution(si),
        sfi_avg_contribution |-> get_average_contribution(sfi),
        agents |-> [agent_id \in {AgentList[i] : i \in 1 .. NumAgents} |->
                       agent_data(ags[agent_id], ranks)]]

\* record_round_history: sum(round_payoff of the members) / len(members), or 0
avg_payoff(inst, ags) ==
    IF Len(inst.members) > 0
    THEN SumSeq([i \in 1 .. Len(inst.members) |-> ags[inst.members[i]].round_payoff])
             \div Len(inst.members)
    ELSE 0

\* record_round_history: the feedback given to update_history
feedback(ag, data, ags) ==
    data.agents[ag.agent_id] @@
    [round_number |-> current_round,
     avg_payoff_SI |-> avg_payoff(si, ags),
     avg_payoff_SFI |-> avg_payoff(sfi, ags),
     avg_contribution_institution |->
         IF ag.institution_choice = "SI"
         THEN get_average_contribution(si) ELSE get_average_contribution(sfi)]

\* record_round_history: the anonymous entry made of another agent's data
anonymous_entry(other_agent_data) ==
    [institution_choice |-> other_agent_data.institution_choice,
     contribution |-> other_agent_data.contribution,
     received_punishments |-> other_agent_data.received_punishments,
     received_rewards |-> other_agent_data.received_rewards,
     stage1_payoff |-> other_agent_data.stage1_payoff,
     stage2_payoff |-> other_agent_data.stage2_payoff,
     total_round_payoff |-> other_agent_data.payoff]

\* anonymous_data_list without the test other_agent.agent_id !=
\* agent.agent_id: the property AnonymizedBatchShape tells it from the
\* method.
anonymous_data_list_unfiltered(agent_id, data) ==
    [i \in 1 .. NumAgents |-> anonymous_entry(data.agents[AgentList[i]])]

\* record_round_history: anonymous_data_list built for agent_id
anonymous_data_list(agent_id, data) ==
    LET others == SelectSeq(AgentList, LAMBDA other : other # agent_id)
    IN [i \in 1 .. Len(others) |-> anonymous_entry(data.agents[others[i]])]

\* record_round_history: every agent after update_history and the staging
\* of its anonymous data
record_round_history(ags) ==
    LET data == round_data(ags)
    IN [agent_id \in AgentIds |->
           [update_history(ags[agent_id], feedback(ags[agent_id], data, ags))
               EXCEPT !.current_round_anonymous_data =
                          Staged(anonymous_data_list(agent_id, data))]]

\* -------------------------------------------------------- main.py
\* parameters.SAVE_RESULTS
SAVE_RESULTS == TRUE

\* The positional parameters of Environment.save_results_to_filename after
\* self (filename, model_name, num_agents, num_rounds), and the positional
\* arguments main() passes to it.
save_results_to_filename_parameters == 4
save_results_to_filename_arguments == 6

\* A call of a method without defaults or *args binds only when it is given
\* as many positional arguments as it has parameters; otherwise Python
\* raises TypeError before the body runs.
CallBinds(parameter_count, argument_count) == argument_count = parameter_count

\* main() before env.run_simulation() has returned: nothing saved yet.
Main == [pc |-> "run_simulation", saved |-> << >>]

\* main() after env.run_simulation(): the call of save_results_to_filename,
\* whose body dumps self.results into one file.
save_results(m, argument_count, records) ==
    IF ~SAVE_RESULTS THEN [m EXCEPT !.pc = "done"]
    ELSE IF CallBinds(save_results_to_filename_parameters, argument_count)
    THEN [pc |-> "done", saved |-> <<records>>]
    ELSE [m EXCEPT !.pc = "raised"]

\* ---------------------------------------------------------- engine
ProbeIdle == [phase |-> "idle"]

Init ==
    /\ agents = [agent_id \in AgentIds |-> Agent(agent_id)]
    /\ si = Institution
    /\ sfi = Institution
    /\ current_round = 0
    /\ num_rounds = NumRounds
    /\ results = << >>
    /\ pc = "idle"
    /\ idx = 0
    /\ oracle \in [AgentIds -> Profiles]
    /\ update_count = [agent_id \in AgentIds |-> 0]
    /\ decided = {}
    /\ credited = {}
    /\ main = Main
    /\ probe = ProbeIdle

\* run_simulation whose loop runs over range(1, NUM_ROUNDS + 2): the
\* property RunsExactlyNumRounds tells it from the method.
RunSimulationOneMore ==
    /\ pc = "idle"
    /\ current_round <= num_rounds
    /\ main.pc = "run_simulation"
    /\ current_round' = current_round + 1
    /\ pc' = "reset_institution"
    /\ UNCHANGED <<agents, si, sfi, num_rounds, results, idx, oracle, update_count,
                   decided, credited, probe, main>>

\* run_simulation: the head of its for loop
RunSimulation ==
    /\ pc = "idle"
    /\ current_round < num_rounds
    /\ current_round' = current_round + 1
    /\ pc' = "reset_institution"
    /\ UNCHANGED <<agents, si, sfi, num_rounds, results, idx, oracle, update_count,
                   decided, credited, probe, main>>

\* run_round: the two reset_institution calls
ResetInstitutions ==
    /\ pc = "reset_institution"
    /\ si' = reset_institution(si, current_round)
    /\ sfi' = reset_institution(sfi, current_round)
    /\ pc' = "reset_agent"
    /\ idx' = 1
    /\ update_count' = [agent_id \in AgentIds |-> 0]
    /\ decided' = {}
    /\ credited' = {}
    /\ UNCHANGED <<agents, current_round, num_rounds, results, oracle, probe, main>>

\* run_round, first loop: agent.reset_for_new_round()
ResetForNewRound ==
    /\ pc = "reset_agent"
    /\ agents' = [agents EXCEPT ![AgentList[idx]] = reset_for_new_round(@)]
    /\ pc' = "choose"
    /\ UNCHANGED <<si, sfi, current_round, num_rounds, results, idx, oracle, update_count,
                   decided, credited, probe, main>>

\* An exception that leaves a parser leaves run_round and run_simulation
\* with it: the simulation stops where it is.
Aborted ==
    /\ pc' = "aborted"
    /\ UNCHANGED <<agents, si, sfi, current_round, num_rounds, results, idx,
                   oracle, update_count, decided, credited, probe, main>>

\* run_round, first loop: agent.choose_institution and the enrolment
ChooseInstitution ==
    /\ pc = "choose"
    /\ LET agent_id == AgentList[idx]
           response == send_request(agent_id, "choice")
           ag == choose_institution(agents[agent_id], current_round, response)
       IN IF parse_institution_choice_response(response).raised THEN Aborted
          ELSE /\ IF ag.institution_choice = "SI"
                  THEN /\ si' = add_member(si, agent_id)
                       /\ sfi' = sfi
                       /\ agents' = [agents EXCEPT ![agent_id] =
                                        [ag EXCEPT !.current_group = "SI"]]
                  ELSE /\ sfi' = add_member(sfi, agent_id)
                       /\ si' = si
                       /\ agents' = [agents EXCEPT ![agent_id] =
                                        [ag EXCEPT !.current_group = "SFI"]]
               /\ IF idx = NumAgents
                  THEN pc' = "si_collect" /\ idx' = 0
                  ELSE pc' = "reset_agent" /\ idx' = idx + 1
               /\ UNCHANGED <<current_round, num_rounds, results, oracle,
                              update_count, decided, credited, probe, main>>

\* si.collect_contributions(): the statements before the loop
SiCollectBegin ==
    /\ pc = "si_collect" /\ idx = 0
    /\ si' = collect_contributions_begin(si)
    /\ IF Len(si.members) = 0
       THEN pc' = "sfi_collect" /\ idx' = 0
       ELSE pc' = pc /\ idx' = 1
    /\ UNCHANGED <<agents, sfi, current_round, num_rounds, results, oracle, update_count,
                   decided, credited, probe, main>>

\* si.collect_contributions(): one member decides and is added to the total
SiCollect ==
    /\ pc = "si_collect" /\ idx >= 1
    /\ LET agent_id == si.members[idx]
           response == send_request(agent_id, "contribution")
           ag == decide_contribution(agents[agent_id], response)
       IN IF parse_contribution_response(response).raised THEN Aborted
          ELSE /\ agents' = [agents EXCEPT ![agent_id] = ag]
               /\ si' = collect_contribution(si, ag.contribution)
               /\ IF idx = Len(si.members)
                  THEN pc' = "sfi_collect" /\ idx' = 0
                  ELSE pc' = pc /\ idx' = idx + 1
               /\ UNCHANGED <<sfi, current_round, num_rounds, results, oracle,
                              update_count, decided, credited, probe, main>>

\* sfi.collect_contributions(): the statements before the loop
SfiCollectBegin ==
    /\ pc = "sfi_collect" /\ idx = 0
    /\ sfi' = collect_contributions_begin(sfi)
    /\ IF Len(sfi.members) = 0
       THEN pc' = "si_distribute" /\ idx' = 0
       ELSE pc' = pc /\ idx' = 1
    /\ UNCHANGED <<agents, si, current_round, num_rounds, results, oracle, update_count,
                   decided, credited, probe, main>>

\* sfi.collect_contributions(): one member decides and is added to the total
SfiCollect ==
    /\ pc = "sfi_collect" /\ idx >= 1
    /\ LET agent_id == sfi.members[idx]
           response == send_request(agent_id, "contribution")
           ag == decide_contribution(agents[agent_id], response)
       IN IF parse_contribution_response(response).raised THEN Aborted
          ELSE /\ agents' = [agents EXCEPT ![agent_id] = ag]
               /\ sfi' = collect_contribution(sfi, ag.contribution)
               /\ IF idx = Len(sfi.members)
                  THEN pc' = "si_distribute" /\ idx' = 0
                  ELSE pc' = pc /\ idx' = idx + 1
               /\ UNCHANGED <<si, current_round, num_rounds, results, oracle,
                              update_count, decided, credited, probe, main>>

\* si.distribute_public_goods()
SiDistribute ==
    /\ pc = "si_distribute"
    /\ si' = distribute_public_goods(si, agents)
    /\ pc' = "sfi_distribute"
    /\ UNCHANGED <<agents, sfi, current_round, num_rounds, results, idx, oracle,
                   update_count, decided, credited, probe, main>>

\* sfi.distribute_public_goods(); the loops over si.members that follow
\* (handle, apply, the first loop of calculate_payoffs) have no iteration
\* when SI is empty.
SfiDistribute ==
    /\ pc = "sfi_distribute"
    /\ sfi' = distribute_public_goods(sfi, agents)
    /\ pc' = IF Len(si.members) > 0 THEN "handle" ELSE "payoffs_sfi"
    /\ idx' = 1
    /\ UNCHANGED <<agents, si, current_round, num_rounds, results, oracle, update_count,
                   decided, credited, probe, main>>

\* handle_punishments_and_rewards that returns after its first member, so
\* that the application starts while members have yet to decide: the
\* property StagesInOrder tells it from the method.
HandlePunishmentsAndRewardsFirstOnly ==
    /\ pc = "handle"
    /\ LET agent_id == si.members[idx]
           response == send_request(agent_id, "allocation")
           after == handle_punishments_and_rewards(agents, si, agent_id, response)
       IN IF parse_punishment_response(
                 response, get_group_state(si, agent_id)).raised THEN Aborted
          ELSE /\ agents' = after.agents
               /\ si' = after.si
               /\ decided' = decided \cup {agent_id}
               /\ pc' = "apply" /\ idx' = 1
               /\ UNCHANGED <<sfi, current_round, num_rounds, results, oracle,
                              update_count, credited, probe, main>>

\* si.handle_punishments_and_rewards(): one member decides
HandlePunishmentsAndRewards ==
    /\ pc = "handle"
    /\ LET agent_id == si.members[idx]
           response == send_request(agent_id, "allocation")
           after == handle_punishments_and_rewards(agents, si, agent_id, response)
       IN IF parse_punishment_response(
                 response, get_group_state(si, agent_id)).raised THEN Aborted
          ELSE /\ agents' = after.agents
               /\ si' = after.si
               /\ decided' = decided \cup {agent_id}
               /\ IF idx = Len(si.members)
                  THEN pc' = "apply" /\ idx' = 1
                  ELSE pc' = pc /\ idx' = idx + 1
               /\ UNCHANGED <<sfi, current_round, num_rounds, results, oracle,
                              update_count, credited, probe, main>>

\* si.apply_punishments_and_rewards(): one member is credited
ApplyPunishmentsAndRewards ==
    /\ pc = "apply"
    /\ LET agent_id == si.members[idx]
       IN /\ agents' = apply_punishments_and_rewards(agents, si, agent_id)
          /\ credited' = credited \cup {agent_id}
    /\ IF idx = Len(si.members)
       THEN pc' = "payoffs_si" /\ idx' = 1
       ELSE pc' = pc /\ idx' = idx + 1
    /\ UNCHANGED <<si, sfi, current_round, num_rounds, results, oracle, update_count,
                   decided, probe, main>>

\* calculate_payoffs(): one member of SI
CalculatePayoffsSi ==
    /\ pc = "payoffs_si"
    /\ LET agent_id == si.members[idx]
       IN /\ agents' = calculate_payoffs_si(agents, si, agent_id)
          /\ update_count' = [update_count EXCEPT ![agent_id] = @ + 1]
    /\ IF idx < Len(si.members)
       THEN pc' = pc /\ idx' = idx + 1
       ELSE /\ pc' = IF Len(sfi.members) > 0 THEN "payoffs_sfi" ELSE "record"
            /\ idx' = 1
    /\ UNCHANGED <<si, sfi, current_round, num_rounds, results, oracle, decided,
                   credited, probe, main>>

\* calculate_payoffs(): one member of SFI
CalculatePayoffsSfi ==
    /\ pc = "payoffs_sfi"
    /\ LET agent_id == sfi.members[idx]
       IN /\ agents' = calculate_payoffs_sfi(agents, sfi, agent_id)
          /\ update_count' = [update_count EXCEPT ![agent_id] = @ + 1]
    /\ IF idx < Len(sfi.members)
       THEN pc' = pc /\ idx' = idx + 1
       ELSE pc' = "record" /\ idx' = 1
    /\ UNCHANGED <<si, sfi, current_round, num_rounds, results, oracle, decided,
                   credited, probe, main>>

\* record_round_history()
RecordRoundHistory ==
    /\ pc = "record"
    /\ agents' = record_round_history(agents)
    /\ results' = Append(results, round_data(agents))
    /\ pc' = "idle"
    /\ idx' = 0
    /\ UNCHANGED <<si, sfi, current_round, num_rounds, oracle, update_count, decided,
                   credited, probe, main>>

\* main(): run_simulation has run its last round and returned; the results
\* are handed to save_results_to_filename.
SaveResults ==
    /\ pc = "idle"
    /\ current_round = num_rounds
    /\ main.pc = "run_simulation"
    /\ main' = save_results(main, save_results_to_filename_arguments, results)
    /\ UNCHANGED <<agents, si, sfi, current_round, num_rounds, results, pc, idx,
                   oracle, update_count, decided, credited, probe>>

Next ==
    \/ RunSimulation
    \/ ResetInstitutions
    \/ ResetForNewRound
    \/ ChooseInstitution
    \/ SiCollectBegin
    \/ SiCollect
    \/ SfiCollectBegin
    \/ SfiCollect
    \/ SiDistribute
    \/ SfiDistribute
    \/ HandlePunishmentsAndRewards
    \/ ApplyPunishmentsAndRewards
    \/ CalculatePayoffsSi
    \/ CalculatePayoffsSfi
    \/ RecordRoundHistory
    \/ SaveResults

Spec == Init /\ [][Next]_vars

\* The same engine run for LongRounds rounds, on three of the scripts.
LongProfiles ==
    {profile \in Profiles :
        \/ Len(profile.choice) = 3
        \/ profile.choice = <<MalformedInst, InstResponse("SI")>>
        \/ profile.choice = <<InstResponse("SI")>> }

LongInit ==
    /\ agents = [agent_id \in AgentIds |-> Agent(agent_id)]
    /\ si = Institution
    /\ sfi = Institution
    /\ current_round = 0
    /\ num_rounds = LongRounds
    /\ results = << >>
    /\ pc = "idle"
    /\ idx = 0
    /\ oracle \in [AgentIds -> LongProfiles]
    /\ update_count = [agent_id \in AgentIds |-> 0]
    /\ decided = {}
    /\ credited = {}
    /\ main = Main
    /\ probe = ProbeIdle

\* run_simulation is one sequential loop: as long as every request to the
\* oracle returns, the statement it has reached is executed.  The runs
\* start as those of Spec, with the oracles of LongProfiles.
FairInit ==
    /\ agents = [agent_id \in AgentIds |-> Agent(agent_id)]
    /\ si = Institution
    /\ sfi = Institution
    /\ current_round = 0
    /\ num_rounds = NumRounds
    /\ results = << >>
    /\ pc = "idle"
    /\ idx = 0
    /\ oracle \in [AgentIds -> LongProfiles]
    /\ update_count = [agent_id \in AgentIds |-> 0]
    /\ decided = {}
    /\ credited = {}
    /\ main = Main
    /\ probe = ProbeIdle

FairSpec == FairInit /\ [][Next]_vars /\ WF_vars(Next)

LongSpec == LongInit /\ [][Next]_vars

\* ------------------------------------------------ parsers under test
\* The parsers are pure functions of the response.  These specifications
\* give one agent a response drawn from a wide set and let it decide once;
\* the engine's variables stay as constructed.
EngineIdle ==
    /\ agents = [agent_id \in AgentIds |-> Agent(agent_id)]
    /\ si = Institution
    /\ sfi = Institution
    /\ current_round = 0
    /\ num_rounds = NumRounds
    /\ results = << >>
    /\ pc = "idle"
    /\ idx = 0
    /\ oracle = [agent_id \in AgentIds |->
                    CHOOSE profile \in Profiles : profile.choice = <<InstResponse("SFI")>>]
    /\ update_count = [agent_id \in AgentIds |-> 0]
    /\ decided = {}
    /\ credited = {}
    /\ main = Main

\* Contribution responses: no object, or an object whose contribution is
\* an integer, a decimal, a numeric string, absent, or not a number.
ContributionValues ==
    {Val("int", v) : v \in (0 - MaxValue) .. MaxValue}
      \cup {Val("float", v) : v \in {-15, -5, 5, 99, 199, 200, 205, 1000000}}
      \cup {Val("str", v) : v \in {-1, 0, 20, 21}}
      \cup {Missing, Bad}
ContributionResponses ==
    {MalformedContrib} \cup {ContribResponse(v) : v \in ContributionValues}

ContribInit ==
    /\ EngineIdle
    /\ probe \in {[phase |-> "asked", response |-> response, agent |-> Agent(0)] :
                     response \in ContributionResponses}

\* Agent.decide_contribution on the response under test
ProbeDecideContribution ==
    /\ probe.phase = "asked"
    /\ probe' = [probe EXCEPT !.phase = "returned",
                              !.agent = decide_contribution(@, probe.response)]
    /\ UNCHANGED engine_vars

ContribNext == ProbeDecideContribution

ContribSpec == ContribInit /\ [][ContribNext]_vars

\* Allocation responses: no object, an object whose mappings are no
\* objects, or an object that the oracle writes entry by entry, at most
\* MaxEntries entries in all; the keys of one mapping are distinct strings,
\* as in any parsed JSON object.
\* probe.menu holds the entries the oracle may write and probe.max_entries
\* the most it writes.
AllocKeys == {Key("plain", 1), Key("spaced", 1), Key("plain", 2), Key("text", 0)}
AllocTokens == {Val("int", -4), Val("int", 12), Val("float", 259), Bad}
AllocEntries == {Entry(key, tokens) : key \in AllocKeys, tokens \in AllocTokens}

\* The keys a mapping under construction already holds.
KeysOf(entries) == {entries[i].key : i \in 1 .. Len(entries)}

\* group_state['members'] for requester 0: the first k other agents
MemberLists == {[i \in 1 .. k |-> i] : k \in 0 .. (NumAgents - 1)}

AllocInit ==
    /\ EngineIdle
    /\ probe \in {[phase |-> "writing", response |-> response,
                   menu |-> AllocEntries, max_entries |-> MaxEntries,
                   members |-> members, agent |-> Agent(0)] :
                     response \in {MalformedAlloc, BadMapAlloc,
                                   AllocResponse(<< >>, << >>)},
                     members \in MemberLists}

\* The oracle writes one more entry of "punishments"
OracleWritesPunishment ==
    /\ probe.phase = "writing"
    /\ probe.response.json /\ ~probe.response.badmap
    /\ Len(probe.response.punishments) + Len(probe.response.rewards) < probe.max_entries
    /\ \E entry \in probe.menu :
          /\ entry.key \notin KeysOf(probe.response.punishments)
          /\ probe' = [probe EXCEPT !.response.punishments = Append(@, entry)]
    /\ UNCHANGED engine_vars

\* The oracle writes one more entry of "rewards"
OracleWritesReward ==
    /\ probe.phase = "writing"
    /\ probe.response.json /\ ~probe.response.badmap
    /\ Len(probe.response.punishments) + Len(probe.response.rewards) < probe.max_entries
    /\ \E entry \in probe.menu :
          /\ entry.key \notin KeysOf(probe.response.rewards)
          /\ probe' = [probe EXCEPT !.response.rewards = Append(@, entry)]
    /\ UNCHANGED engine_vars

\* Agent.assign_punishment on the response under test
ProbeAssignPunishment ==
    /\ probe.phase = "writing"
    /\ probe' = [probe EXCEPT !.phase = "returned",
                              !.agent = assign_punishment(@, probe.response, probe.members)]
    /\ UNCHANGED engine_vars

AllocNext ==
    \/ OracleWritesPunishment
    \/ OracleWritesReward
    \/ ProbeAssignPunishment

AllocSpec == AllocInit /\ [][AllocNext]_vars

\* The runs on the shared budget: agent 1 is shown its three peers 0, 2
\* and 3 (aliases 1, 2 and 3) and the oracle asks for 5, 10 or 15 tokens
\* per entry, at most BudgetMaxEntries entries in all.
BudgetKeys == {Key("plain", 1), Key("plain", 2), Key("plain", 3)}
BudgetTokens == {Val("int", 5), Val("int", 10), Val("int", 15)}
BudgetEntries == {Entry(key, tokens) : key \in BudgetKeys, tokens \in BudgetTokens}
BudgetMembers == <<0, 2, 3>>

BudgetInit ==
    /\ EngineIdle
    /\ probe = [phase |-> "writing", response |-> AllocResponse(<< >>, << >>),
                menu |-> BudgetEntries, max_entries |-> BudgetMaxEntries,
                members |-> BudgetMembers, agent |-> Agent(1)]

BudgetSpec == BudgetInit /\ [][AllocNext]_vars

\* ------------------------------------------------ runs side by side
\* Several main() processes started from one working directory.  A process
\* is known by its pid; the pids of processes alive together differ, while
\* time.time() may show them the same second.  A path is a directory and a
\* file name; probe.opened holds <<path, pid>> for every open(path, 'w').
Pids == 1 .. NumProcesses

\* main(): run_id = f"run_{int(time.time())}_{os.getpid()}" in logs/
output_dir(now, pid) == <<"logs", "run", now, pid>>

\* Agent.assign_punishment: os.path.join(self.output_dir, f'info_{agent_id}.json')
info_file(dir, agent_id) == [dir |-> dir, name |-> <<"info", agent_id>>]

\* save_results_to_filename: final_filename, built from the model name and
\* the numbers of agents and rounds, in the working directory.
results_file == [dir |-> <<".">>, name |-> <<"simulation_results", NumAgents, NumRounds>>]

Process == [pc |-> "start", output_dir |-> << >>, requests |-> 0]

ParallelInit ==
    /\ EngineIdle
    /\ probe = [phase |-> "parallel",
                clock |-> 0,
                processes |-> [pid \in Pids |-> Process],
                opened |-> {}]

\* A second passes.
Tick ==
    /\ probe.phase = "parallel"
    /\ probe.clock < MaxClock
    /\ probe' = [probe EXCEPT !.clock = @ + 1]
    /\ UNCHANGED engine_vars

\* main(): the output directory is made and the agents are given it.
MakeOutputDir ==
    /\ probe.phase = "parallel"
    /\ \E pid \in Pids :
          /\ probe.processes[pid].pc = "start"
          /\ probe' = [probe EXCEPT
                          !.processes[pid].pc = "run_simulation",
                          !.processes[pid].output_dir = output_dir(probe.clock, pid)]
    /\ UNCHANGED engine_vars

\* Some agent of a running simulation goes through assign_punishment and
\* writes its debug file.
WriteInfoFile ==
    /\ probe.phase = "parallel"
    /\ \E pid \in Pids : \E agent_id \in AgentIds :
          /\ probe.processes[pid].pc = "run_simulation"
          /\ probe.processes[pid].requests < MaxRequests
          /\ probe' = [probe EXCEPT
                          !.processes[pid].requests = @ + 1,
                          !.opened = @ \cup {<<info_file(probe.processes[pid].output_dir,
                                                         agent_id), pid>>}]
    /\ UNCHANGED engine_vars

\* run_simulation has returned in some process: its save step.
ProcessSavesResults ==
    /\ probe.phase = "parallel"
    /\ \E pid \in Pids :
          /\ probe.processes[pid].pc = "run_simulation"
          /\ LET after == save_results(Main, save_results_to_filename_arguments, << >>)
             IN probe' = [probe EXCEPT
                             !.processes[pid].pc = after.pc,
                             !.opened = IF after.saved # << >>
                                        THEN @ \cup {<<results_file, pid>>}
                                        ELSE @]
    /\ UNCHANGED engine_vars

ParallelNext ==
    \/ Tick
    \/ MakeOutputDir
    \/ WriteInfoFile
    \/ ProcessSavesResults

ParallelSpec == ParallelInit /\ [][ParallelNext]_vars

\* ------------------------------------------- objects and references
\* Python binds a name or a dict value to an object: a record that holds
\* agent.assigned_punishments holds the dict object itself, and changes
\* with it if the object is ever changed in place.  probe.heap is the
\* sequence of the allocation dicts created so far and a reference is an
\* index into it.  One agent (id 0, with the peers 1 and 2 as the members
\* shown to it) goes through its rounds: reset_for_new_round, then
\* assign_punishment when it is in SI, then record_round_history.  An
\* entry of probe.results is the agent_data of the round and an entry of
\* probe.agent.history the feedback, its shallow copy: both hold the
\* references the agent held when the round was recorded.
ObjectMembers == <<1, 2>>
ObjectResponses ==
    {MalformedAlloc,
     AllocResponse(<<Entry(Key("plain", 1), Val("int", 5))>>, << >>),
     AllocResponse(<< >>, <<Entry(Key("plain", 2), Val("int", 3))>>),
     AllocResponse(<<Entry(Key("plain", 2), Val("int", 4))>>,
                   <<Entry(Key("plain", 1), Bad)>>)}

\* Agent.__init__: the two dicts it creates are objects 1 and 2.
ObjectsInit ==
    /\ EngineIdle
    /\ probe = [phase |-> "objects",
                step |-> "reset",
                round |-> 0,
                heap |-> <<EmptyDict, EmptyDict>>,
                agent |-> [assigned_punishments |-> 1,
                           assigned_rewards |-> 2,
                           history |-> << >>],
                results |-> << >>]

\* reset_for_new_round emptying the two dicts in place (dict.clear())
\* instead of binding new ones: the property RoundRecordsImmutable tells it
\* from the method.
reset_for_new_round_clearing(p) ==
    [p EXCEPT !.heap = [@ EXCEPT ![p.agent.assigned_punishments] = EmptyDict,
                                 ![p.agent.assigned_rewards] = EmptyDict]]

\* Agent.reset_for_new_round: self.assigned_punishments = {} and
\* self.assigned_rewards = {} create two dicts and bind the fields to them.
reset_for_new_round_rebinding(p) ==
    [p EXCEPT !.heap = @ \o <<EmptyDict, EmptyDict>>,
              !.agent.assigned_punishments = Len(p.heap) + 1,
              !.agent.assigned_rewards = Len(p.heap) + 2]

\* Agent.assign_punishment: parse_punishment_response fills two dicts of
\* its own and the fields are bound to them.
assign_punishment_rebinding(p, response, members) ==
    LET parsed == parse_punishment_response(response, members)
    IN [p EXCEPT !.heap = @ \o <<parsed.punishment_allocations,
                                 parsed.reward_allocations>>,
                 !.agent.assigned_punishments = Len(p.heap) + 1,
                 !.agent.assigned_rewards = Len(p.heap) + 2]

\* record_round_history: agent_data holds agent.assigned_punishments and
\* agent.assigned_rewards themselves; feedback = agent_data.copy() holds
\* the same two objects and is appended to the agent's history, and the
\* round's data to the results.
record_round_history_references(p) ==
    LET data == [round_number |-> p.round,
                 assigned_punishments |-> p.agent.assigned_punishments,
                 assigned_rewards |-> p.agent.assigned_rewards]
    IN [p EXCEPT !.agent.history = Append(@, data),
                 !.results = Append(@, data)]

\* run_round: agent.reset_for_new_round() at the start of a round
ObjectsReset ==
    /\ probe.phase = "objects" /\ probe.step = "reset"
    /\ probe.round < num_rounds
    /\ probe' = [reset_for_new_round_rebinding(probe) EXCEPT
                    !.round = probe.round + 1, !.step = "assign"]
    /\ UNCHANGED engine_vars

\* handle_punishments_and_rewards: the agent is in SI and decides
ObjectsAssign ==
    /\ probe.phase = "objects" /\ probe.step = "assign"
    /\ \E response \in ObjectResponses :
          probe' = [assign_punishment_rebinding(probe, response, ObjectMembers)
                       EXCEPT !.step = "record"]
    /\ UNCHANGED engine_vars

\* handle_punishments_and_rewards runs over si.members only: the agent is
\* in SFI and is not asked
ObjectsNotAsked ==
    /\ probe.phase = "objects" /\ probe.step = "assign"
    /\ probe' = [probe EXCEPT !.step = "record"]
    /\ UNCHANGED engine_vars

\* run_round: record_round_history() at the end of the round
ObjectsRecord ==
    /\ probe.phase = "objects" /\ probe.step = "record"
    /\ probe' = [record_round_history_references(probe) EXCEPT !.step = "reset"]
    /\ UNCHANGED engine_vars

ObjectsNext ==
    \/ ObjectsReset
    \/ ObjectsAssign
    \/ ObjectsNotAsked
    \/ ObjectsRecord

ObjectsSpec == ObjectsInit /\ [][ObjectsNext]_vars

\* ------------------------------------------------- sweep_runner.py
\* run_sweep hands every run configuration to a pool of worker threads;
\* a worker runs run_single_simulation, which starts main.py as a process,
\* waits for it, and returns a result; the thread of run_sweep takes the
\* results as they come and files them.  What the process does (its exit
\* code, whether it outlives the timeout) and whether an operating-system
\* call of the worker raises are outside the runner.
\* A run configuration is known by its position in all_configs; its
\* run_id is unique, being made of the model, the agent count and alpha.
\* probe.runs[run] = [pc, attempts, result]: pc is "new", "queued"
\* (submitted, no worker yet), "waiting" (in process.wait), "done"
\* (result returned) or "recorded"; attempts counts the calls of
\* run_single_simulation for it, started tells whether its process was
\* started, and outcome keeps what the process did.

\* SWEEP_CONFIG['retry_attempts']
retry_attempts == 2

Run ==
    [pc |-> "new", attempts |-> 0, started |-> FALSE,
     outcome |-> [timed_out |-> FALSE, return_code |-> 0, raises |-> FALSE],
     result |-> [status |-> "none", run_id |-> 0]]

\* SweepRunner.__init__ and run_sweep down to the overview: total_runs is
\* the number of configurations the filters leave.
SweepInit ==
    /\ EngineIdle
    /\ probe \in {[phase |-> "sweep",
                   pc |-> "overview",
                   total_runs |-> total_runs,
                   max_parallel_jobs |-> MaxParallelJobs,
                   runs |-> [run \in 1 .. total_runs |-> Run],
                   active_processes |-> {},
                   completed_runs |-> << >>,
                   failed_runs |-> << >>] : total_runs \in 0 .. NumRuns}

\* run_single_simulation up to process.wait: the command is built, the
\* log files are opened and the process is started and entered in
\* active_processes; if one of these raises, the except branch makes the
\* result and the finally branch finds no entry to delete.
run_single_simulation_start(p, run, started) ==
    IF started
    THEN [p EXCEPT !.runs[run].pc = "waiting",
                   !.runs[run].attempts = @ + 1,
                   !.runs[run].started = TRUE,
                   !.active_processes = @ \cup {run}]
    ELSE [p EXCEPT !.runs[run].pc = "done",
                   !.runs[run].attempts = @ + 1,
                   !.runs[run].result = [status |-> "error", run_id |-> run]]

\* The result run_single_simulation makes once process.wait is over.
\* outcome.timed_out tells whether wait raised TimeoutExpired (the process
\* is then killed), outcome.return_code is the exit code otherwise, and
\* outcome.raises tells whether the handling of a zero exit code
\* (find_result_file, os.rename) raised.
simulation_result(run, outcome) ==
    [status |-> IF outcome.timed_out THEN "timeout"
                ELSE IF outcome.return_code # 0 THEN "failed"
                ELSE IF outcome.raises THEN "error"
                ELSE "success",
     run_id |-> run]

Outcomes ==
    {[timed_out |-> FALSE, return_code |-> 0, raises |-> FALSE],
     [timed_out |-> FALSE, return_code |-> 0, raises |-> TRUE],
     [timed_out |-> FALSE, return_code |-> 1, raises |-> FALSE],
     [timed_out |-> TRUE, return_code |-> 0, raises |-> FALSE]}

\* run_single_simulation from the return of process.wait to its own
\* return, the finally branch included.
run_single_simulation_end(p, run, outcome) ==
    [p EXCEPT !.runs[run].pc = "done",
              !.runs[run].outcome = outcome,
              !.runs[run].result = simulation_result(run, outcome),
              !.active_processes = @ \ {run}]

\* The body of the as_completed loop filing only the results of status
\* 'failed' as failed, so that a timeout or an error is filed nowhere: the
\* property EveryRunRecordedOnce tells it from the method.
record_result_failed_status_only(p, result) ==
    IF result.status = "success"
    THEN [p EXCEPT !.completed_runs = Append(@, result)]
    ELSE IF result.status = "failed"
    THEN [p EXCEPT !.failed_runs = Append(@, result)]
    ELSE p

\* run_sweep: the body of the as_completed loop
record_result(p, result) ==
    IF result.status = "success"
    THEN [p EXCEPT !.completed_runs = Append(@, result)]
    ELSE [p EXCEPT !.failed_runs = Append(@, result)]

\* run_sweep(dry_run = True): the configurations are listed and run_sweep
\* returns.
RunSweepDryRun ==
    /\ probe.phase = "sweep" /\ probe.pc = "overview"
    /\ probe' = [probe EXCEPT !.pc = "dry_run"]
    /\ UNCHANGED engine_vars

\* run_sweep: the user answers the question with something else than y.
RunSweepCancelled ==
    /\ probe.phase = "sweep" /\ probe.pc = "overview"
    /\ probe' = [probe EXCEPT !.pc = "cancelled"]
    /\ UNCHANGED engine_vars

\* run_sweep: executor.submit for every configuration
SubmitJobs ==
    /\ probe.phase = "sweep" /\ probe.pc = "overview"
    /\ probe' = [probe EXCEPT
                    !.pc = "executor",
                    !.runs = [run \in DOMAIN probe.runs |->
                                 [probe.runs[run] EXCEPT !.pc = "queued"]]]
    /\ UNCHANGED engine_vars

\* A free worker takes the oldest job of the queue and runs
\* run_single_simulation up to process.wait.
StartSimulation ==
    /\ probe.phase = "sweep" /\ probe.pc = "executor"
    /\ Cardinality({run \in DOMAIN probe.runs : probe.runs[run].pc = "waiting"})
          < probe.max_parallel_jobs
    /\ \E run \in DOMAIN probe.runs : \E started \in BOOLEAN :
          /\ probe.runs[run].pc = "queued"
          /\ \A earlier \in 1 .. (run - 1) : probe.runs[earlier].pc # "queued"
          /\ probe' = run_single_simulation_start(probe, run, started)
    /\ UNCHANGED engine_vars

\* process.wait returns or times out in some worker, which finishes
\* run_single_simulation.
EndSimulation ==
    /\ probe.phase = "sweep" /\ probe.pc = "executor"
    /\ \E run \in DOMAIN probe.runs :
       \E outcome \in Outcomes :
          /\ probe.runs[run].pc = "waiting"
          /\ probe' = run_single_simulation_end(probe, run, outcome)
    /\ UNCHANGED engine_vars

\* run_sweep: as_completed yields a finished future and its result is
\* filed.
RecordResult ==
    /\ probe.phase = "sweep" /\ probe.pc = "executor"
    /\ \E run \in DOMAIN probe.runs :
          /\ probe.runs[run].pc = "done"
          /\ probe' = [record_result(probe, probe.runs[run].result) EXCEPT
                          !.runs[run].pc = "recorded"]
    /\ UNCHANGED engine_vars

\* run_sweep: every future has been yielded and the executor is left; the
\* summary divides by total_runs.
FinishSweep ==
    /\ probe.phase = "sweep" /\ probe.pc = "executor"
    /\ \A run \in DOMAIN probe.runs : probe.runs[run].pc = "recorded"
    /\ probe' = [probe EXCEPT !.pc = IF probe.total_runs = 0 THEN "raised"
                                     ELSE "finished"]
    /\ UNCHANGED engine_vars

SweepNext ==
    \/ RunSweepDryRun
    \/ RunSweepCancelled
    \/ SubmitJobs
    \/ StartSimulation
    \/ EndSimulation
    \/ RecordResult
    \/ FinishSweep

SweepSpec == SweepInit /\ [][SweepNext]_vars

\* -------------------------------------------------------- properties
\* The ids in a list of members.
Range(list) == {list[i] : i \in 1 .. Len(list)}

\* sum(member.contribution for member in inst.members)
SumOfContributions(inst) ==
    SumSeq([i \in 1 .. Len(inst.members) |-> agents[inst.members[i]].contribution])

\* The phases of run_round at which each collect_contributions call has
\* returned and record_round_history has not.
AfterSiCollect ==
    {"sfi_collect", "si_distribute", "sfi_distribute", "handle", "apply",
     "payoffs_si", "payoffs_sfi", "record"}
AfterSfiCollect == AfterSiCollect \ {"sfi_collect"}

\* C1: while handle_punishments_and_rewards and apply_punishments_and_rewards
\* run, an agent that apply has not reached yet has received_punishments =
\* received_rewards = 0 (the decide phase credits nobody); and once apply
\* has credited anyone, every SI member has decided and every decision is
\* in the matrices.
DecideBeforeApply ==
    /\ pc \in {"handle", "apply"} =>
          \A a \in AgentIds \ credited :
              /\ agents[a].received_punishments = 0
              /\ agents[a].received_rewards = 0
    /\ credited # {} =>
          /\ decided = Range(si.members)
          /\ \A a \in Range(si.members) :
                /\ \A t \in DOMAIN agents[a].assigned_punishments :
                      /\ t \in DOMAIN si.punishment_matrix
                      /\ a \in DOMAIN si.punishment_matrix[t]
                      /\ si.punishment_matrix[t][a] = agents[a].assigned_punishments[t]
                /\ \A t \in DOMAIN agents[a].assigned_rewards :
                      /\ t \in DOMAIN si.reward_matrix
                      /\ a \in DOMAIN si.reward_matrix[t]
                      /\ si.reward_matrix[t][a] = agents[a].assigned_rewards[t]

\* C1 happens: apply is running, all of at least two members have decided,
\* and an agent it has credited was punished.
DecideBeforeApplyWitness ==
    /\ pc = "apply"
    /\ Cardinality(decided) >= 2
    /\ \E a \in credited : agents[a].received_punishments > 0
    /\ \E a \in AgentIds \ credited :
          a \in DOMAIN si.punishment_matrix /\ agents[a].received_punishments = 0

\* C2: whatever the response, the allocations assign_punishment records are
\* all >= 0 and sum(assigned_punishments.values()) +
\* sum(assigned_rewards.values()) <= ENDOWMENT_STAGE_2.
AllocationsWithinBudget ==
    probe.phase = "returned" =>
        /\ \A t \in DOMAIN probe.agent.assigned_punishments :
              probe.agent.assigned_punishments[t] >= 0
        /\ \A t \in DOMAIN probe.agent.assigned_rewards :
              probe.agent.assigned_rewards[t] >= 0
        /\ SumValues(probe.agent.assigned_punishments)
             + SumValues(probe.agent.assigned_rewards) <= ENDOWMENT_STAGE_2

\* C2 happens: two keys for the same peer ask for 12 tokens each, more than
\* the budget together, and a reward asks for a negative amount.
AllocationsWithinBudgetWitness ==
    /\ probe.phase = "returned"
    /\ probe.response = AllocResponse(
                            <<Entry(Key("plain", 1), Val("int", 12)),
                              Entry(Key("spaced", 1), Val("int", 12))>>,
                            <<Entry(Key("plain", 2), Val("int", -4))>>)
    /\ probe.members = <<1, 2>>
    /\ probe.agent.assigned_punishments = (1 :> 8)
    /\ probe.agent.assigned_rewards = (2 :> 0)

\* The cumulative payoff agent a had when round r began.
CumulativeBefore(r, a) ==
    IF r = 1 THEN INITIAL_TOKENS * Scale
    ELSE results[r - 1].agents[a].cumulative_payoff

\* C3: in every round record, an agent's cumulative payoff is its
\* cumulative payoff before the round plus the round's stage-one payoff
\* plus its stage-two payoff; update_payoff runs at most once per agent in
\* a round, and once for every agent by the time the round is recorded.
CumulativePayoffAccounting ==
    /\ \A r \in 1 .. Len(results) : \A a \in AgentIds :
          results[r].agents[a].cumulative_payoff =
              CumulativeBefore(r, a)
                + (results[r].agents[a].stage1_payoff
                     + results[r].agents[a].stage2_payoff)
    /\ \A a \in AgentIds : update_count[a] <= 1
    /\ pc = "record" \/ (pc = "idle" /\ current_round >= 1) =>
          \A a \in AgentIds : update_count[a] = 1
    /\ pc = "record" =>
          \A a \in AgentIds :
              agents[a].cumulative_payoff =
                  CumulativeBefore(current_round, a) + agents[a].round_payoff

\* C3 happens: a second round is recorded in which a punished agent's
\* cumulative payoff has moved.
CumulativePayoffAccountingWitness ==
    /\ Len(results) = 2
    /\ \E a \in AgentIds :
          /\ results[2].agents[a].received_punishments > 0
          /\ results[2].agents[a].cumulative_payoff
                # results[1].agents[a].cumulative_payoff

\* C4: from the return of collect_contributions to the writing of the round
\* record, total_contribution is the sum of the members' contributions and
\* get_average_contribution is total_contribution / number of members, 0
\* for an institution without members; the record holds the same figures.
ContributionTotals ==
    /\ pc \in AfterSiCollect =>
          /\ si.total_contribution = SumOfContributions(si)
          /\ get_average_contribution(si) * Len(si.members)
                = Scale * si.total_contribution
          /\ Len(si.members) = 0 => get_average_contribution(si) = 0
    /\ pc \in AfterSfiCollect =>
          /\ sfi.total_contribution = SumOfContributions(sfi)
          /\ get_average_contribution(sfi) * Len(sfi.members)
                = Scale * sfi.total_contribution
          /\ Len(sfi.members) = 0 => get_average_contribution(sfi) = 0
    /\ \A r \in 1 .. Len(results) :
          /\ results[r].si_total_contribution =
                SumSeq([i \in 1 .. Len(results[r].si_members) |->
                           results[r].agents[results[r].si_members[i]].contribution])
          /\ results[r].sfi_total_contribution =
                SumSeq([i \in 1 .. Len(results[r].sfi_members) |->
                           results[r].agents[results[r].sfi_members[i]].contribution])
          /\ results[r].si_avg_contribution * Len(results[r].si_members)
                = Scale * results[r].si_total_contribution
          /\ results[r].sfi_avg_contribution * Len(results[r].sfi_members)
                = Scale * results[r].sfi_total_contribution
          /\ Len(results[r].si_members) = 0 => results[r].si_avg_contribution = 0
          /\ Len(results[r].sfi_members) = 0 => results[r].sfi_avg_contribution = 0

\* C4 happens: the round is about to be recorded with several contributing
\* members in one institution and no member in the other.
ContributionTotalsWitness ==
    /\ pc = "record"
    /\ Len(si.members) >= 2
    /\ \E i, j \in 1 .. Len(si.members) :
          /\ i # j
          /\ agents[si.members[i]].contribution > 0
          /\ agents[si.members[j]].contribution > 0
    /\ (Scale * si.total_contribution) % Len(si.members) = 0
    /\ sfi.members = << >>
    /\ get_average_contribution(sfi) = 0

\* C5: once every agent has chosen, and in every round record, the two
\* member lists are disjoint, hold no agent twice, and together hold the
\* whole population; the record's per-agent map has one entry per agent.
OneInstitutionPerAgent ==
    /\ pc \in AfterSiCollect \cup {"si_collect"} =>
          /\ Range(si.members) \cap Range(sfi.members) = {}
          /\ Range(si.members) \cup Range(sfi.members) = AgentIds
          /\ Len(si.members) + Len(sfi.members) = NumAgents
    /\ \A r \in 1 .. Len(results) :
          /\ Range(results[r].si_members) \cap Range(results[r].sfi_members) = {}
          /\ Range(results[r].si_members) \cup Range(results[r].sfi_members) = AgentIds
          /\ Len(results[r].si_members) + Len(results[r].sfi_members) = NumAgents
          /\ DOMAIN results[r].agents = AgentIds

\* C5 happens: a second round is recorded with members in both
\* institutions, one of whom changed institution since the first round.
OneInstitutionPerAgentWitness ==
    /\ Len(results) = 2
    /\ results[2].si_members # << >>
    /\ results[2].sfi_members # << >>
    /\ \E a \in Range(results[2].si_members) : a \in Range(results[1].sfi_members)

\* C6: in every round record the ranks are a permutation of 1 .. N, an
\* agent with a higher cumulative payoff has a better (smaller) rank, and of
\* two agents with equal cumulative payoff the one earlier in the
\* population list has the better rank.
RanksOrdered ==
    \A r \in 1 .. Len(results) :
        LET data == results[r].agents
        IN /\ {data[a].rank[1] : a \in AgentIds} = 1 .. NumAgents
           /\ \A a \in AgentIds : data[a].rank[2] = NumAgents
           /\ \A a, b \in AgentIds :
                 /\ data[a].cumulative_payoff > data[b].cumulative_payoff
                       => data[a].rank[1] < data[b].rank[1]
                 /\ data[a].cumulative_payoff = data[b].cumulative_payoff /\ a < b
                       => data[a].rank[1] < data[b].rank[1]

\* C6 happens: a record in which two agents tie and a third, later in the
\* population list than one of them, has more than both.
RanksOrderedWitness ==
    \E r \in 1 .. Len(results) : \E a, b, c \in AgentIds :
        /\ a < b
        /\ a < c
        /\ results[r].agents[a].cumulative_payoff = results[r].agents[b].cumulative_payoff
        /\ results[r].agents[c].cumulative_payoff > results[r].agents[a].cumulative_payoff
        /\ results[r].agents[c].rank[1] = 1

\* The fields of an anonymous entry.
AnonymousFields ==
    {"institution_choice", "contribution", "received_punishments",
     "received_rewards", "stage1_payoff", "stage2_payoff", "total_round_payoff"}

\* C7: the batch staged for an observer has one entry for each other agent,
\* in population order, made of that agent's record of the round, and none
\* for the observer; an entry has the seven anonymous fields only, so no
\* assigned_punishments, no assigned_rewards and no agent id.
AnonymizedBatchShape ==
    \A observer \in AgentIds :
        ~agents[observer].current_round_anonymous_data.is_none =>
            LET batch == agents[observer].current_round_anonymous_data.data
                data == results[Len(results)].agents
                other(i) == IF i - 1 < observer THEN i - 1 ELSE i
            IN /\ Len(batch) = NumAgents - 1
               /\ \A i \in 1 .. Len(batch) :
                     /\ DOMAIN batch[i] = AnonymousFields
                     /\ other(i) # observer
                     /\ batch[i].institution_choice = data[other(i)].institution_choice
                     /\ batch[i].contribution = data[other(i)].contribution
                     /\ batch[i].received_punishments = data[other(i)].received_punishments
                     /\ batch[i].received_rewards = data[other(i)].received_rewards
                     /\ batch[i].stage1_payoff = data[other(i)].stage1_payoff
                     /\ batch[i].stage2_payoff = data[other(i)].stage2_payoff
                     /\ batch[i].total_round_payoff = data[other(i)].payoff

\* C7 happens: batches are staged after a round in which an agent assigned
\* punishments, and the observer's own record differs from every entry it
\* is given.
AnonymizedBatchShapeWitness ==
    /\ pc = "idle"
    /\ Len(results) = 2
    /\ \E a \in AgentIds : results[2].agents[a].assigned_punishments # EmptyDict
    /\ \E observer \in AgentIds :
          LET staged == agents[observer].current_round_anonymous_data
          IN /\ ~staged.is_none
             /\ \A i \in 1 .. Len(staged.data) :
                   staged.data[i] # anonymous_entry(results[2].agents[observer])

\* The round-scoped fields of agent a are cleared in the next state.
RoundFieldsCleared(a) ==
    /\ agents'[a].contribution = 0
    /\ agents'[a].received_punishments = 0
    /\ agents'[a].received_rewards = 0
    /\ agents'[a].assigned_punishments = EmptyDict
    /\ agents'[a].assigned_rewards = EmptyDict

\* C8 as stated: reset_for_new_round clears the round fields and leaves
\* cumulative_payoff, history and anonymous_data_history as they were at
\* the end of the previous round.
ResetKeepsBothHistories ==
    [][pc = "reset_agent" =>
          LET a == AgentList[idx]
          IN /\ RoundFieldsCleared(a)
             /\ agents'[a].cumulative_payoff = agents[a].cumulative_payoff
             /\ agents'[a].history = agents[a].history
             /\ agents'[a].anonymous_data_history = agents[a].anonymous_data_history]_vars

\* C8, amended: reset_for_new_round clears the round fields and leaves
\* cumulative_payoff and history as they were; anonymous_data_history is
\* unchanged when no batch is staged, and otherwise gains the staged batch
\* under the number of the round that staged it, losing its oldest entry
\* when that makes it longer than DISPLAY_PAST_ACTIONS; the staged batch
\* is cleared.  So the history holds the batches of the last
\* DISPLAY_PAST_ACTIONS rounds before the current one, oldest first.
ResetMovesStagedBatch ==
    /\ [][pc = "reset_agent" =>
            LET a == AgentList[idx]
                staged == agents[a].current_round_anonymous_data
                before == agents[a].anonymous_data_history
                after == agents'[a].anonymous_data_history
            IN /\ RoundFieldsCleared(a)
               /\ agents'[a].cumulative_payoff = agents[a].cumulative_payoff
               /\ agents'[a].history = agents[a].history
               /\ agents'[a].current_round_anonymous_data = None
               /\ staged.is_none => after = before
               /\ ~staged.is_none =>
                     /\ Len(after) = Min(Len(before) + 1, DISPLAY_PAST_ACTIONS)
                     /\ after[Len(after)] =
                           [round_number |-> agents[a].round_number,
                            anonymous_data |-> staged.data]
                     /\ IF Len(before) < DISPLAY_PAST_ACTIONS
                        THEN SubSeq(after, 1, Len(after) - 1) = before
                        ELSE /\ Len(after) = DISPLAY_PAST_ACTIONS
                             /\ SubSeq(after, 1, Len(after) - 1) = Tail(before)]_vars
    /\ [](\A a \in AgentIds :
             pc \in AfterSiCollect =>
                 LET kept == agents[a].anonymous_data_history
                     n == Min(current_round - 1, DISPLAY_PAST_ACTIONS)
                 IN /\ Len(kept) = n
                    /\ \A i \in 1 .. n :
                          kept[i].round_number = current_round - 1 - n + i)

\* C8 happens: a reset has just moved a staged batch into a full history,
\* evicting the batch of round 1.
ResetMovesStagedBatchWitness ==
    /\ pc = "choose"
    /\ current_round > DISPLAY_PAST_ACTIONS + 1
    /\ LET kept == agents[AgentList[idx]].anonymous_data_history
       IN /\ Len(kept) = DISPLAY_PAST_ACTIONS
          /\ kept[1].round_number = current_round - DISPLAY_PAST_ACTIONS
          /\ kept[Len(kept)].round_number = current_round - 1
    /\ agents[AgentList[idx]].current_round_anonymous_data = None
    /\ Len(agents[AgentList[idx]].history) = current_round - 1

\* C9: whatever the response, the contribution decide_contribution stores
\* from parse_contribution_response is within
\* MIN_CONTRIBUTION .. MAX_CONTRIBUTION.
ContributionWithinLimits ==
    probe.phase = "returned" =>
        /\ MIN_CONTRIBUTION <= probe.agent.contribution
        /\ probe.agent.contribution <= MAX_CONTRIBUTION

\* C9 happens: a response asking for more than MAX_CONTRIBUTION has been
\* parsed.
ContributionWithinLimitsWitness ==
    /\ probe.phase = "returned"
    /\ probe.response = ContribResponse(Val("int", MAX_CONTRIBUTION + 5))
    /\ probe.agent.contribution = MAX_CONTRIBUTION

\* The agent whose decision the next step of run_round takes.
DecidingAgent ==
    CASE pc = "choose" -> AgentList[idx]
      [] pc = "si_collect" -> si.members[idx]
      [] pc = "sfi_collect" -> sfi.members[idx]
      [] pc = "handle" -> si.members[idx]

\* The next step of run_round takes a decision from text that holds no
\* object.
MalformedDecision ==
    \/ pc = "choose" /\ ~send_request(AgentList[idx], "choice").json
    \/ pc = "si_collect" /\ idx >= 1
          /\ ~send_request(si.members[idx], "contribution").json
    \/ pc = "sfi_collect" /\ idx >= 1
          /\ ~send_request(sfi.members[idx], "contribution").json
    \/ pc = "handle" /\ ~send_request(si.members[idx], "allocation").json

\* C10: whichever agents answer with text that holds no object, at
\* whichever stages, no exception stops the simulation; when a round has
\* returned, every stage of it has run (payoffs distributed, every SI member
\* decided and credited, every agent paid once and given its history entry
\* and its batch) and its record is appended and covers every agent; and
\* the step that takes such an answer changes no other agent.
MalformedResponsesTolerated ==
    /\ [](/\ pc # "aborted"
          /\ pc = "idle" =>
                /\ Len(results) = current_round
                /\ \A r \in 1 .. Len(results) :
                      /\ results[r].round_number = r
                      /\ DOMAIN results[r].agents = AgentIds
          /\ pc = "idle" /\ current_round >= 1 =>
                /\ DOMAIN si.stage1_payoffs = Range(si.members)
                /\ DOMAIN sfi.stage1_payoffs = Range(sfi.members)
                /\ decided = Range(si.members)
                /\ credited = Range(si.members)
                /\ \A a \in AgentIds :
                      /\ update_count[a] = 1
                      /\ Len(agents[a].history) = current_round
                      /\ ~agents[a].current_round_anonymous_data.is_none)
    /\ [][MalformedDecision =>
             \A other \in AgentIds \ {DecidingAgent} : agents'[other] = agents[other]]_vars

\* C10 happens: two rounds are recorded in which one agent answered every
\* request with text that holds no object, in SFI and then in SI, next to
\* an SI member whose allocation was recorded.
MalformedResponsesToleratedWitness ==
    /\ pc = "idle"
    /\ Len(results) = 2
    /\ \E a, b \in AgentIds :
          /\ a # b
          /\ oracle[a].choice = <<MalformedInst, InstResponse("SI")>>
          /\ oracle[a].contribution = <<MalformedContrib>>
          /\ oracle[a].allocation = <<MalformedAlloc>>
          /\ results[1].agents[a].institution_choice = "SFI"
          /\ results[1].agents[a].contribution = ENDOWMENT_STAGE_1 \div 2
          /\ results[2].agents[a].institution_choice = "SI"
          /\ results[2].agents[a].assigned_punishments = EmptyDict
          /\ results[2].agents[a].punishment_reasoning = ""
          /\ results[2].agents[b].institution_choice = "SI"
          /\ results[2].agents[b].assigned_punishments # EmptyDict

\* Agent a has gone through choose_institution in the current round.
HasChosen(a) == current_round >= 1 /\ agents[a].round_number = current_round

\* The choice response of agent a in the current round is text without an
\* object, or an object whose institution_choice is no string.
ChoiceUnparsable(a) ==
    LET response == send_request(a, "choice")
    IN ~response.json \/ response.institution_choice = "null"

\* C11: once an agent has gone through choose_institution its
\* institution_choice is 'SI' or 'SFI'; when its response of the round could
\* not be parsed the choice is 'SFI' and institution_reasoning is ''.
InstitutionChoiceDefaults ==
    \A a \in AgentIds :
        HasChosen(a) =>
            /\ agents[a].institution_choice \in {"SI", "SFI"}
            /\ ChoiceUnparsable(a) =>
                  /\ agents[a].institution_choice = "SFI"
                  /\ agents[a].institution_reasoning = ""

\* C11 happens: an agent that was in SI the round before has answered the
\* choice request with text that cannot be parsed, next to an agent whose
\* unclear choice 'both' was read.
InstitutionChoiceDefaultsWitness ==
    /\ Len(results) >= 1
    /\ \E a, b \in AgentIds :
          /\ HasChosen(a)
          /\ ~send_request(a, "choice").json
          /\ results[Len(results)].agents[a].institution_choice = "SI"
          /\ results[Len(results)].round_number = current_round - 1
          /\ agents[a].institution_choice = "SFI"
          /\ HasChosen(b)
          /\ send_request(b, "choice") = InstResponse("both")
          /\ agents[b].institution_choice = "SFI"
          /\ agents[b].institution_reasoning = "because"

\* The contribution response is text without an object, or an object whose
\* contribution int() rejects.
ContributionUnparsable(response) ==
    \/ ~response.json
    \/ (response.contribution.t # "missing" /\ ~IntOf(response.contribution).ok)

\* C12: when the contribution response cannot be parsed, decide_contribution
\* leaves contribution = ENDOWMENT_STAGE_1 // 2, which is the largest integer
\* not above half the endowment, and contribution_reasoning = ''.
ContributionDefault ==
    probe.phase = "returned" /\ ContributionUnparsable(probe.response) =>
        /\ probe.agent.contribution = ENDOWMENT_STAGE_1 \div 2
        /\ 2 * probe.agent.contribution <= ENDOWMENT_STAGE_1
        /\ ENDOWMENT_STAGE_1 < 2 * (probe.agent.contribution + 1)
        /\ probe.agent.contribution_reasoning = ""

\* C12 happens: text without an object has gone through decide_contribution.
ContributionDefaultWitness ==
    /\ probe.phase = "returned"
    /\ probe.response = MalformedContrib
    /\ probe.agent.contribution = ENDOWMENT_STAGE_1 \div 2
    /\ probe.agent.contribution_reasoning = ""

\* The list without its i-th element.
RemoveAt(list, i) ==
    [j \in 1 .. (Len(list) - 1) |-> IF j < i THEN list[j] ELSE list[j + 1]]

\* The alias of the entry is no integer, or lies outside 1 .. len(members).
Unresolvable(entry, members) ==
    LET agent_num == KeyInt(entry.key)
    IN ~agent_num.ok \/ agent_num.v < 1 \/ agent_num.v > Len(members)

\* What assign_punishment stores of a parse.
Stored(parsed) ==
    <<parsed.punishment_allocations, parsed.reward_allocations,
      parsed.punishment_reasoning>>

\* C13: an entry whose alias is no integer or lies outside
\* 1 .. len(members) is skipped: the allocations and the reasoning stored are
\* those of the same response without that entry (so the entry records
\* nothing, takes nothing off the budget, and its amount is not even
\* converted), and every recorded target is a member shown.
UnresolvableAliasesSkipped ==
    probe.phase = "returned" /\ probe.response.json /\ ~probe.response.badmap =>
        LET response == probe.response
            members == probe.members
            stored == <<probe.agent.assigned_punishments,
                        probe.agent.assigned_rewards,
                        probe.agent.punishment_reasoning>>
        IN /\ \A i \in 1 .. Len(response.punishments) :
                 Unresolvable(response.punishments[i], members) =>
                     stored = Stored(parse_punishment_response(
                                  [response EXCEPT !.punishments = RemoveAt(@, i)],
                                  members))
           /\ \A i \in 1 .. Len(response.rewards) :
                 Unresolvable(response.rewards[i], members) =>
                     stored = Stored(parse_punishment_response(
                                  [response EXCEPT !.rewards = RemoveAt(@, i)],
                                  members))
           /\ DOMAIN probe.agent.assigned_punishments \subseteq Range(members)
           /\ DOMAIN probe.agent.assigned_rewards \subseteq Range(members)

\* C13 happens: with one peer shown, an entry for alias 2 with an amount
\* int() rejects and an entry with a key that is no integer are skipped
\* around an entry for alias 1, which is recorded in full.
UnresolvableAliasesSkippedWitness ==
    /\ probe.phase = "returned"
    /\ probe.members = <<1>>
    /\ probe.response = AllocResponse(
                            <<Entry(Key("plain", 2), Bad),
                              Entry(Key("plain", 1), Val("int", 12))>>,
                            <<Entry(Key("text", 0), Val("int", 12))>>)
    /\ probe.agent.assigned_punishments = (1 :> 12)
    /\ probe.agent.assigned_rewards = EmptyDict
    /\ probe.agent.punishment_reasoning = "because"

\* The tokens the first n entries of a mapping ask for.
Requested(entries, n) == SumSeq([i \in 1 .. n |-> entries[i].tokens.v])

\* What is left of ENDOWMENT_STAGE_2 once requests adding up to asked have
\* been served as far as the budget went.
LeftAfter(asked) == Max(0, ENDOWMENT_STAGE_2 - asked)

\* The runs on the shared budget ask for positive whole amounts under
\* aliases in range, so the budget left before the i-th punishment entry is
\* LeftAfter(requests before it), and before the i-th reward entry
\* LeftAfter(all punishment requests and the reward requests before it).
LeftBeforePunishment(response, i) ==
    LeftAfter(Requested(response.punishments, i - 1))
LeftBeforeReward(response, i) ==
    LeftAfter(Requested(response.punishments, Len(response.punishments))
                + Requested(response.rewards, i - 1))

\* C14: one budget, ENDOWMENT_STAGE_2 at the start, runs through the
\* punishments and then the rewards in order.  A punishment entry is
\* processed while budget is left before it, the first reward entry always,
\* a later reward entry while budget is left before it; a processed entry
\* is recorded as max(0, min(requested, left)) and an unprocessed one not
\* at all.  Punishments {alias 1: 15, alias 2: 10} and rewards {alias 3: 5,
\* alias 1: 5} give punishments {15, 5}, nothing left, and the single
\* reward entry {alias 3: 0}.
SharedBudget ==
    probe.phase = "returned" =>
        LET response == probe.response
            members == probe.members
            assigned_punishments == probe.agent.assigned_punishments
            assigned_rewards == probe.agent.assigned_rewards
        IN /\ \A i \in 1 .. Len(response.punishments) :
                 LET target == members[response.punishments[i].key.n]
                     left == LeftBeforePunishment(response, i)
                 IN IF left > 0
                    THEN /\ target \in DOMAIN assigned_punishments
                         /\ assigned_punishments[target] =
                               Max(0, Min(response.punishments[i].tokens.v, left))
                    ELSE target \notin DOMAIN assigned_punishments
           /\ \A i \in 1 .. Len(response.rewards) :
                 LET target == members[response.rewards[i].key.n]
                     left == LeftBeforeReward(response, i)
                 IN IF i = 1 \/ left > 0
                    THEN /\ target \in DOMAIN assigned_rewards
                         /\ assigned_rewards[target] =
                               Max(0, Min(response.rewards[i].tokens.v, left))
                    ELSE target \notin DOMAIN assigned_rewards
           /\ response = AllocResponse(
                             <<Entry(Key("plain", 1), Val("int", 15)),
                               Entry(Key("plain", 2), Val("int", 10))>>,
                             <<Entry(Key("plain", 3), Val("int", 5)),
                               Entry(Key("plain", 1), Val("int", 5))>>)
                 => /\ assigned_punishments = (members[1] :> 15 @@ members[2] :> 5)
                    /\ assigned_rewards = (members[3] :> 0)
                    /\ ENDOWMENT_STAGE_2
                          - SumValues(assigned_punishments)
                          - SumValues(assigned_rewards) = 0

\* C14 happens: the response of the example has been parsed for agent 1,
\* whose peers 0, 2 and 3 are shown as aliases 1, 2 and 3.
SharedBudgetWitness ==
    /\ probe.phase = "returned"
    /\ probe.response = AllocResponse(
                            <<Entry(Key("plain", 1), Val("int", 15)),
                              Entry(Key("plain", 2), Val("int", 10))>>,
                            <<Entry(Key("plain", 3), Val("int", 5)),
                              Entry(Key("plain", 1), Val("int", 5))>>)
    /\ probe.agent.assigned_punishments = (0 :> 15 @@ 2 :> 5)
    /\ probe.agent.assigned_rewards = (3 :> 0)

\* The state of the punishments loop after the first i entries, and of the
\* rewards loop after its first j entries when it starts with left tokens.
AfterPunishments(response, members, i) ==
    process_entries([alloc |-> EmptyDict,
                     tokens_remaining |-> ENDOWMENT_STAGE_2,
                     status |-> "run"],
                    SubSeq(response.punishments, 1, i), 1, members)
AfterRewards(response, members, left, j) ==
    process_entries([alloc |-> EmptyDict,
                     tokens_remaining |-> left,
                     status |-> "run"],
                    SubSeq(response.rewards, 1, j), 1, members)

\* The positions of the reward entries whose alias resolves.
ResolvableRewards(response, members) ==
    {j \in 1 .. Len(response.rewards) : ~Unresolvable(response.rewards[j], members)}

\* When the rewards use the budget up at their j-th entry, the result holds
\* the punishments in full and the rewards up to that entry.
RewardsStopAtExhaustion ==
    LET response == probe.response
        members == probe.members
        p == AfterPunishments(response, members, Len(response.punishments))
    IN p.status = "run" =>
          \A j \in 1 .. Len(response.rewards) :
              LET r == AfterRewards(response, members, p.tokens_remaining, j)
              IN r.status = "break" =>
                    /\ probe.agent.assigned_punishments = p.alloc
                    /\ probe.agent.assigned_rewards = r.alloc

\* C15 as stated: once an entry has brought the budget to zero it is
\* recorded and no later entry of either mapping is in the result; when
\* the punishments use the budget up, assigned_rewards is empty.
ExhaustionDropsRewards ==
    probe.phase = "returned" /\ probe.response.json /\ ~probe.response.badmap =>
        /\ \A i \in 1 .. Len(probe.response.punishments) :
              LET p == AfterPunishments(probe.response, probe.members, i)
              IN p.status = "break" =>
                    /\ probe.agent.assigned_punishments = p.alloc
                    /\ probe.agent.assigned_rewards = EmptyDict
        /\ RewardsStopAtExhaustion

\* C15, amended: once an entry has brought the budget to zero it is
\* recorded and no later entry of the same mapping is in the result.  When
\* the punishments use the budget up, the rewards loop still runs up to its
\* first entry with a resolvable alias: that entry is recorded with 0
\* tokens and the later ones are dropped; if its amount cannot be
\* converted, the whole result is empty instead; assigned_rewards is empty
\* only when no reward alias resolves.
ExhaustionKeepsFirstReward ==
    probe.phase = "returned" /\ probe.response.json /\ ~probe.response.badmap =>
        /\ \A i \in 1 .. Len(probe.response.punishments) :
              LET response == probe.response
                  members == probe.members
                  p == AfterPunishments(response, members, i)
                  resolvable == ResolvableRewards(response, members)
                  first == CHOOSE k \in resolvable : \A j \in resolvable : k <= j
              IN p.status = "break" =>
                    IF resolvable = {}
                    THEN /\ probe.agent.assigned_punishments = p.alloc
                         /\ probe.agent.assigned_rewards = EmptyDict
                    ELSE IF ~IntOf(response.rewards[first].tokens).ok
                    THEN /\ probe.agent.assigned_punishments = EmptyDict
                         /\ probe.agent.assigned_rewards = EmptyDict
                         /\ probe.agent.punishment_reasoning = ""
                    ELSE /\ probe.agent.assigned_punishments = p.alloc
                         /\ probe.agent.assigned_rewards =
                               (members[KeyInt(response.rewards[first].key).v] :> 0)
        /\ RewardsStopAtExhaustion

\* C15 happens: one punishment entry takes the whole budget and two
\* reward entries follow; the first of them is recorded with 0 tokens.
ExhaustionKeepsFirstRewardWitness ==
    /\ probe.phase = "returned"
    /\ probe.members = <<1, 2>>
    /\ probe.response = AllocResponse(
                            <<Entry(Key("plain", 1), Val("float", 259))>>,
                            <<Entry(Key("plain", 2), Val("int", 12)),
                              Entry(Key("plain", 1), Val("int", 12))>>)
    /\ probe.agent.assigned_punishments = (1 :> ENDOWMENT_STAGE_2)
    /\ probe.agent.assigned_rewards = (2 :> 0)

\* Every agent has been enrolled in an institution for the current round.
AllEnrolled == Len(si.members) + Len(sfi.members) = NumAgents

\* The keys of an allocation made by actor are members of SI other than
\* actor, where in_si is the set of the round's SI members.
TargetsAmong(allocations, actor, in_si) ==
    /\ DOMAIN allocations \subseteq in_si \ {actor}
    /\ DOMAIN allocations # {} => actor \in in_si

\* The victims or beneficiaries of a matrix and the actors under each of
\* them are members of SI, and nobody is its own target.
MatrixAmong(matrix, in_si) ==
    /\ DOMAIN matrix \subseteq in_si
    /\ \A target \in DOMAIN matrix : DOMAIN matrix[target] \subseteq in_si \ {target}

\* C16: every key of assigned_punishments and assigned_rewards, and every
\* victim, beneficiary and actor of the two matrices, is the agent_id of a
\* member of SI in the current round; the target is never the allocating
\* agent, never a member of SFI, and the same holds of what the round
\* records keep.
TargetsAreSiMembers ==
    /\ MatrixAmong(si.punishment_matrix, Range(si.members))
    /\ MatrixAmong(si.reward_matrix, Range(si.members))
    /\ AllEnrolled =>
          \A a \in AgentIds :
              /\ TargetsAmong(agents[a].assigned_punishments, a, Range(si.members))
              /\ TargetsAmong(agents[a].assigned_rewards, a, Range(si.members))
              /\ DOMAIN agents[a].assigned_punishments \cap Range(sfi.members) = {}
              /\ DOMAIN agents[a].assigned_rewards \cap Range(sfi.members) = {}
    /\ \A r \in 1 .. Len(results) :
          LET in_si == {b \in AgentIds :
                           results[r].agents[b].institution_choice = "SI"}
          IN \A a \in AgentIds :
                /\ TargetsAmong(results[r].agents[a].assigned_punishments, a, in_si)
                /\ TargetsAmong(results[r].agents[a].assigned_rewards, a, in_si)

\* C16 happens: in an SI of three, agent 1 names its peer 1, which is
\* agent 0, and agent 2 names its peer 1 too; both amounts are recorded
\* under agent 0, none under the alias 1.
TargetsAreSiMembersWitness ==
    /\ pc = "apply"
    /\ si.members = <<0, 1, 2>>
    /\ agents[1].assigned_punishments = (0 :> 5)
    /\ agents[2].assigned_punishments = (0 :> 5)
    /\ si.punishment_matrix[0] = (1 :> 5) @@ (2 :> 5)

\* payoff, a number times Scale, is (ENDOWMENT_STAGE_1 - contribution) +
\* (PUBLIC_GOOD_MULTIPLIER * total) / size, as an equation between integers.
IsStageOnePayoff(payoff, contribution, total, size) ==
    payoff * PUBLIC_GOOD_MULTIPLIER_DEN * size =
        Scale * ((ENDOWMENT_STAGE_1 - contribution) * PUBLIC_GOOD_MULTIPLIER_DEN * size
                 + PUBLIC_GOOD_MULTIPLIER_NUM * total)

\* The stage-one payoffs an institution holds follow the formula, with the
\* total over every member's contribution.
StageOnePayoffsOf(inst) ==
    /\ DOMAIN inst.stage1_payoffs # {} =>
          /\ DOMAIN inst.stage1_payoffs = Range(inst.members)
          /\ inst.group_size = Len(inst.members)
          /\ inst.total_contribution = SumOfContributions(inst)
    /\ \A a \in DOMAIN inst.stage1_payoffs :
          IsStageOnePayoff(inst.stage1_payoffs[a], agents[a].contribution,
                           inst.total_contribution, inst.group_size)

\* The sum of the recorded contributions of the listed members.
RecordedTotal(record, members) ==
    SumSeq([i \in 1 .. Len(members) |-> record.agents[members[i]].contribution])

\* C17: the stage-one payoff stored for a member is (ENDOWMENT_STAGE_1 -
\* contribution) + (PUBLIC_GOOD_MULTIPLIER * total) / size, with the total
\* of all the members' contributions, in both institutions and in every
\* round record; two SFI members contributing 10 and 20 get 34 and 24, and
\* 54 and 44 for the round.
StageOnePayoff ==
    /\ StageOnePayoffsOf(si)
    /\ StageOnePayoffsOf(sfi)
    /\ \A r \in 1 .. Len(results) :
          LET record == results[r]
          IN /\ \A i \in 1 .. Len(record.si_members) :
                   IsStageOnePayoff(record.agents[record.si_members[i]].stage1_payoff,
                                    record.agents[record.si_members[i]].contribution,
                                    RecordedTotal(record, record.si_members),
                                    Len(record.si_members))
             /\ \A i \in 1 .. Len(record.sfi_members) :
                   IsStageOnePayoff(record.agents[record.sfi_members[i]].stage1_payoff,
                                    record.agents[record.sfi_members[i]].contribution,
                                    RecordedTotal(record, record.sfi_members),
                                    Len(record.sfi_members))
             /\ \A a, b \in AgentIds :
                   /\ Range(record.sfi_members) = {a, b}
                   /\ Len(record.sfi_members) = 2
                   /\ record.agents[a].contribution = 10
                   /\ record.agents[b].contribution = 20
                   => /\ record.agents[a].stage1_payoff = Scale * 34
                      /\ record.agents[b].stage1_payoff = Scale * 24
                      /\ record.agents[a].payoff = Scale * 54
                      /\ record.agents[b].payoff = Scale * 44

\* C17 happens: a round ends with two members in SFI that contributed 10
\* and 20, and their payoffs are those of the example.
StageOnePayoffWitness ==
    \E r \in 1 .. Len(results) : \E a, b \in AgentIds :
        /\ Range(results[r].sfi_members) = {a, b}
        /\ Len(results[r].sfi_members) = 2
        /\ results[r].agents[a].contribution = 10
        /\ results[r].agents[b].contribution = 20
        /\ results[r].agents[a].stage1_payoff = Scale * 34
        /\ results[r].agents[b].payoff = Scale * 44

\* The tokens the agents of a record assigned to target, by the mapping
\* named field.
RECURSIVE TokensAssignedTo(_, _, _, _)
TokensAssignedTo(record, field, target, n) ==
    IF n = 0 THEN 0
    ELSE LET allocations == record.agents[AgentList[n]][field]
         IN (IF target \in DOMAIN allocations THEN allocations[target] ELSE 0)
            + TokensAssignedTo(record, field, target, n - 1)

\* C18: the stage-two payoff of a member of SI is (ENDOWMENT_STAGE_2 - the
\* tokens it assigned) + the reward tokens it received * REWARD_EFFECT - the
\* punishment tokens it received * PUNISHMENT_EFFECT; when one member
\* assigns 5 punishment tokens to another and nothing else is assigned,
\* the two get 15 and 5.
StageTwoPayoff ==
    \A r \in 1 .. Len(results) :
        LET record == results[r]
        IN /\ \A i \in 1 .. Len(record.si_members) :
                 LET data == record.agents[record.si_members[i]]
                     assigned == SumValues(data.assigned_punishments)
                                 + SumValues(data.assigned_rewards)
                     rewarded == TokensAssignedTo(record, "assigned_rewards",
                                                  record.si_members[i], NumAgents)
                     punished == TokensAssignedTo(record, "assigned_punishments",
                                                  record.si_members[i], NumAgents)
                 IN data.stage2_payoff =
                        Scale * ((ENDOWMENT_STAGE_2 - assigned)
                                 + rewarded * REWARD_EFFECT
                                 - punished * PUNISHMENT_EFFECT)
           /\ \A a, b \in AgentIds :
                 /\ a # b
                 /\ record.agents[a].assigned_punishments = (b :> 5)
                 /\ record.agents[a].assigned_rewards = EmptyDict
                 /\ \A c \in AgentIds \ {a} :
                       /\ record.agents[c].assigned_punishments = EmptyDict
                       /\ record.agents[c].assigned_rewards = EmptyDict
                 => /\ record.agents[a].stage2_payoff = Scale * 15
                    /\ record.agents[b].stage2_payoff = Scale * 5

\* C18 happens: a round ends in which one member of SI assigned 5
\* punishment tokens to another and nobody assigned anything else.
StageTwoPayoffWitness ==
    \E r \in 1 .. Len(results) : \E a, b \in AgentIds :
        /\ a # b
        /\ results[r].agents[a].assigned_punishments = (b :> 5)
        /\ results[r].agents[a].assigned_rewards = EmptyDict
        /\ \A c \in AgentIds \ {a} :
              /\ results[r].agents[c].assigned_punishments = EmptyDict
              /\ results[r].agents[c].assigned_rewards = EmptyDict
        /\ results[r].agents[a].stage2_payoff = Scale * 15
        /\ results[r].agents[b].stage2_payoff = Scale * 5

\* The group_state that collect_contributions is about to pass to
\* decide_contribution holds no contribution of the current round.
NoCurrentContribution(group_state) ==
    group_state.anonymized_contributions = << >>

\* C19 as stated: whatever the position of a member in its institution,
\* the group_state passed to its decide_contribution contains no
\* contribution made in the current round.
SnapshotHoldsNoCurrentContribution ==
    /\ pc = "si_collect" /\ idx >= 1 =>
          NoCurrentContribution(sanctioning_get_group_state(si, si.members[idx]))
    /\ pc = "sfi_collect" /\ idx >= 1 =>
          NoCurrentContribution(base_get_group_state(sfi, sfi.members[idx]))

\* The position of a phase of run_round in the order of its statements:
\* 1 the two resets, 2 the loop over the population, 3 the contributions,
\* 4 the stage-one payoffs, 5 the allocation decisions, 6 their
\* application, 7 the payoff updates, 8 record_round_history.
StageOf(phase) ==
    CASE phase = "reset_institution" -> 1
      [] phase \in {"reset_agent", "choose"} -> 2
      [] phase \in {"si_collect", "sfi_collect"} -> 3
      [] phase \in {"si_distribute", "sfi_distribute"} -> 4
      [] phase = "handle" -> 5
      [] phase = "apply" -> 6
      [] phase \in {"payoffs_si", "payoffs_sfi"} -> 7
      [] phase = "record" -> 8
      [] OTHER -> 0

\* What each stage leaves behind once it is over for every agent.
EnrolmentDone ==
    /\ AllEnrolled
    /\ \A a \in AgentIds : HasChosen(a)
ContributionsDone ==
    /\ Len(si.anonymized_contributions) = Len(si.members)
    /\ Len(sfi.anonymized_contributions) = Len(sfi.members)
    /\ si.total_contribution = SumOfContributions(si)
    /\ sfi.total_contribution = SumOfContributions(sfi)
StageOneDone ==
    /\ DOMAIN si.stage1_payoffs = Range(si.members)
    /\ DOMAIN sfi.stage1_payoffs = Range(sfi.members)
DecisionsDone == decided = Range(si.members)
ApplicationDone == credited = Range(si.members)
PayoffsDone == \A a \in AgentIds : update_count[a] = 1

\* What the state shows as long as a stage has not begun.
ContributionsNotBegun ==
    /\ si.anonymized_contributions = << >>
    /\ sfi.anonymized_contributions = << >>
StageOneNotBegun ==
    /\ si.stage1_payoffs = EmptyDict
    /\ sfi.stage1_payoffs = EmptyDict
DecisionsNotBegun ==
    /\ decided = {}
    /\ si.punishment_matrix = EmptyDict
    /\ si.reward_matrix = EmptyDict
ApplicationNotBegun == credited = {}
PayoffsNotBegun == \A a \in AgentIds : update_count[a] = 0

\* The loop over the population has dealt with the agents before the
\* idx-th, in population order, and with no other.
EnrolmentInOrder ==
    /\ Range(si.members) \cup Range(sfi.members) = {AgentList[i] : i \in 1 .. (idx - 1)}
    /\ \A i \in 1 .. NumAgents :
          HasChosen(AgentList[i]) <=> i < idx
    /\ pc = "choose" =>
          /\ agents[AgentList[idx]].contribution = 0
          /\ agents[AgentList[idx]].received_punishments = 0
          /\ agents[AgentList[idx]].received_rewards = 0
          /\ agents[AgentList[idx]].assigned_punishments = EmptyDict
          /\ agents[AgentList[idx]].assigned_rewards = EmptyDict

\* In every phase of a round the stages before it are over for every
\* agent and the stages after it have not begun.
StagesComplete ==
    LET stage == StageOf(pc)
    IN /\ stage >= 1 =>
             /\ Len(results) = current_round - 1
             /\ si.round_number = current_round => sfi.round_number = current_round
       /\ stage >= 2 => si.round_number = current_round
       /\ stage = 2 => EnrolmentInOrder
       /\ stage > 2 => EnrolmentDone
       /\ stage = 2 => ContributionsNotBegun
       /\ stage > 3 => ContributionsDone
       /\ stage \in 2 .. 3 => StageOneNotBegun
       /\ stage > 4 => StageOneDone
       /\ stage \in 2 .. 4 => DecisionsNotBegun
       /\ stage > 5 => DecisionsDone
       /\ stage \in 2 .. 5 => ApplicationNotBegun
       /\ stage > 6 => ApplicationDone
       /\ stage \in 2 .. 6 => PayoffsNotBegun
       /\ stage > 7 => PayoffsDone
       /\ pc = "idle" => Len(results) = current_round

\* A step never goes back to an earlier stage of the round; a round begins
\* with the resets and ends with record_round_history, which appends the
\* round record; only an exception leaves the order.
StageOrder ==
    \/ pc' = "aborted"
    \/ /\ pc = "idle"
       /\ pc' \in {"idle", "reset_institution"}
    \/ /\ pc = "record"
       /\ pc' = "idle"
       /\ Len(results') = Len(results) + 1
       /\ \A a \in AgentIds : Len(agents'[a].history) = Len(agents[a].history) + 1
    \/ /\ StageOf(pc) \in 1 .. 7
       /\ StageOf(pc') >= StageOf(pc)
       /\ StageOf(pc') > StageOf(pc) + 1 =>
             /\ Len(si.members) = 0
             /\ StageOf(pc) = 4
       /\ results' = results

\* C20: within every round the stages run in the order of run_round and
\* none starts before the one before it is over for all agents: the resets
\* of both institutions; the reset, choice and enrolment of each agent in
\* population order; the contributions of both institutions; the stage-one
\* payoffs; all the allocation decisions of SI; their application; the
\* payoff update of every agent; ranks, history entries and anonymized
\* batches and the append of the round record.
StagesInOrder == ([]StagesComplete) /\ [][StageOrder]_vars

\* C20 happens: the second round has come to record_round_history with two
\* members in SI and one in SFI, every earlier stage over for all of them.
StagesInOrderWitness ==
    /\ pc = "record"
    /\ current_round = 2
    /\ Len(si.members) = 2
    /\ Len(sfi.members) = 1
    /\ decided = Range(si.members)
    /\ credited = Range(si.members)
    /\ \A a \in AgentIds : update_count[a] = 1

\* C21 as stated: once the configured number of rounds is over and main()
\* has gone past its save step, the complete sequence of round records has
\* been written, and the agents and institutions no longer change.
ResultsSavedAfterLastRound ==
    main.pc # "run_simulation" =>
        /\ Len(results) = num_rounds
        /\ main.pc = "done"
        /\ main.saved = <<results>>

\* C22 as stated: simulations running side by side do not interfere: each
\* one that has ended completed successfully, each writes its debug files
\* into an output directory of its own, and no file is opened for writing
\* by two of them.
ParallelRunsIndependent ==
    probe.phase = "parallel" =>
        /\ \A pid \in Pids :
              probe.processes[pid].pc \notin {"start", "run_simulation"} =>
                  probe.processes[pid].pc = "done"
        /\ \A p, q \in Pids :
              /\ p # q
              /\ probe.processes[p].pc # "start"
              /\ probe.processes[q].pc # "start"
              => probe.processes[p].output_dir # probe.processes[q].output_dir
        /\ \A f, g \in probe.opened : f[1] = g[1] => f[2] = g[2]

\* C23: once apply_punishments_and_rewards has credited a member of SI, its
\* received_punishments is PUNISHMENT_EFFECT times the tokens of its row of
\* the punishment matrix and its received_rewards is REWARD_EFFECT times
\* the tokens of its row of the reward matrix, so it has been credited
\* once; a member not yet credited in the round has received nothing.
ReceivedTotals ==
    /\ \A m \in credited :
          /\ m \in Range(si.members)
          /\ agents[m].received_punishments =
                 PUNISHMENT_EFFECT * total_tokens(si.punishment_matrix, m)
          /\ agents[m].received_rewards =
                 REWARD_EFFECT * total_tokens(si.reward_matrix, m)
    /\ StageOf(pc) \in 3 .. 6 =>
          \A m \in Range(si.members) \ credited :
              /\ agents[m].received_punishments = 0
              /\ agents[m].received_rewards = 0
    /\ StageOf(pc) > 6 => credited = Range(si.members)

\* C23 happens: agent 0 has been punished by both its peers with 5 tokens
\* each and credited with the effect of 10 tokens.
ReceivedTotalsWitness ==
    /\ pc = "payoffs_si"
    /\ si.members = <<0, 1, 2>>
    /\ si.punishment_matrix[0] = (1 :> 5) @@ (2 :> 5)
    /\ agents[0].received_punishments = 10 * PUNISHMENT_EFFECT
    /\ credited = {0, 1, 2}

\* The rounds whose batch agent a has moved into anonymous_data_history:
\* all the rounds it has a history entry for, but the last one while its
\* batch is still staged.
RoundsMoved(a) ==
    IF agents[a].current_round_anonymous_data.is_none
    THEN Len(agents[a].history)
    ELSE Len(agents[a].history) - 1

\* C24: the batch staged for an agent in round R enters its
\* anonymous_data_history under the number R at the agent's reset in round
\* R + 1 and not before; the history never holds more than
\* DISPLAY_PAST_ACTIONS entries, and they are the batches of the most
\* recent rounds moved so far, in increasing round order.
AnonymizedHistoryWindow ==
    /\ [](\A a \in AgentIds :
             LET kept == agents[a].anonymous_data_history
                 moved == RoundsMoved(a)
                 staged == agents[a].current_round_anonymous_data
             IN /\ Len(kept) <= DISPLAY_PAST_ACTIONS
                /\ Len(kept) = Min(moved, DISPLAY_PAST_ACTIONS)
                /\ moved <= Len(results)
                /\ \A i \in 1 .. Len(kept) :
                      /\ kept[i].round_number = moved - Len(kept) + i
                      /\ kept[i].anonymous_data =
                             anonymous_data_list(a, results[kept[i].round_number])
                /\ ~staged.is_none =>
                      /\ agents[a].round_number = Len(agents[a].history)
                      /\ staged.data = anonymous_data_list(a, results[agents[a].round_number])
                      /\ \A i \in 1 .. Len(kept) :
                            kept[i].round_number < agents[a].round_number)
    /\ [][\A a \in AgentIds :
             agents'[a].anonymous_data_history # agents[a].anonymous_data_history =>
                 /\ pc = "reset_agent"
                 /\ a = AgentList[idx]
                 /\ current_round = agents[a].round_number + 1]_vars

\* C24 happens: in round 7 agent 0 has been reset and holds the batches of
\* rounds 2 to 6, while agent 2 still has its batch of round 6 staged and
\* holds those of rounds 1 to 5.
AnonymizedHistoryWindowWitness ==
    /\ pc = "reset_agent"
    /\ idx = 2
    /\ current_round = DISPLAY_PAST_ACTIONS + 2
    /\ Len(agents[0].anonymous_data_history) = DISPLAY_PAST_ACTIONS
    /\ agents[0].anonymous_data_history[1].round_number = 2
    /\ agents[0].anonymous_data_history[DISPLAY_PAST_ACTIONS].round_number =
           DISPLAY_PAST_ACTIONS + 1
    /\ ~agents[2].current_round_anonymous_data.is_none
    /\ Len(agents[2].anonymous_data_history) = DISPLAY_PAST_ACTIONS
    /\ agents[2].anonymous_data_history[1].round_number = 1

\* The rounds that have been completed: the current one counts once
\* record_round_history has returned.
CompletedRounds == IF pc = "idle" THEN current_round ELSE current_round - 1

\* C25: run_simulation ends after exactly NUM_ROUNDS rounds; after R
\* completed rounds results holds exactly R records, numbered 1..R in
\* order, and the history of every agent holds exactly R entries, one per
\* round in order.
RunsExactlyNumRounds ==
    /\ [](/\ current_round \in 0 .. num_rounds
          /\ Len(results) = CompletedRounds
          /\ \A r \in 1 .. Len(results) : results[r].round_number = r
          /\ \A a \in AgentIds :
                /\ Len(agents[a].history) = CompletedRounds
                /\ \A r \in 1 .. Len(agents[a].history) :
                      agents[a].history[r].round_number = r)
    /\ [][/\ current_round' \in {current_round, current_round + 1}
          /\ pc = "idle" /\ current_round = num_rounds =>
                pc' = "idle" /\ results' = results /\ agents' = agents]_vars
    /\ <>(pc = "idle" /\ current_round = num_rounds /\ Len(results) = num_rounds)

\* C25 happens: the last round has been recorded and run_simulation has
\* returned with one record per round.
RunsExactlyNumRoundsWitness ==
    /\ pc = "idle"
    /\ current_round = NumRounds
    /\ Len(results) = NumRounds
    /\ results[NumRounds].round_number = NumRounds
    /\ \A a \in AgentIds : Len(agents[a].history) = NumRounds

\* What the records of the completed rounds say a prompt of agent a shows
\* in round r: nothing of round r itself.
RecordedPastActions(a, r) ==
    LET first == Max(1, r - DISPLAY_PAST_ACTIONS)
    IN [i \in 1 .. (r - first) |->
           [field \in PastActionFields |->
               IF field = "round_number" THEN first + i - 1
               ELSE results[first + i - 1].agents[a][field]]]
RecordedAnonymousData(a, r) ==
    LET first == Max(1, r - DISPLAY_PAST_ACTIONS)
    IN [i \in 1 .. (r - first) |->
           [round_number |-> first + i - 1,
            anonymous_data |-> anonymous_data_list(a, results[first + i - 1])]]

\* The answer the oracle of agent a holds for round r, and the choice and
\* the contribution the parsers make of it.
ScriptedAnswer(a, r, decision) ==
    oracle[a][decision][((r - 1) % Len(oracle[a][decision])) + 1]
ScriptedChoice(a, r) ==
    parse_institution_choice_response(ScriptedAnswer(a, r, "choice")).institution_choice
ScriptedContribution(a, r) ==
    parse_contribution_response(ScriptedAnswer(a, r, "contribution")).contribution

\* The sum of the scripted contributions of a set of agents.
RECURSIVE ScriptedTotal(_, _)
ScriptedTotal(group, r) ==
    IF group = {} THEN 0
    ELSE LET a == CHOOSE b \in group : TRUE
         IN ScriptedContribution(a, r) + ScriptedTotal(group \ {a}, r)

\* C26: the prompt an agent is shown for its institution choice or its
\* contribution holds its own choice and what the records of the completed
\* rounds determine, nothing of another agent's current round; so the
\* choices, contributions, institution totals and stage-one payoffs of a
\* round are those the agents' answers determine, whatever the position of
\* an agent in the order of asking.
OrderIndependentStageOne ==
    /\ pc = "choose" =>
          LET a == AgentList[idx]
          IN construct_institution_choice_prompt(agents[a], current_round) =
                 [round_number |-> current_round,
                  cumulative_payoff |-> CumulativeBefore(current_round, a),
                  past_actions |-> RecordedPastActions(a, current_round),
                  anonymous_data |-> RecordedAnonymousData(a, current_round)]
    /\ \A inst \in {si, sfi} :
          (pc = (IF inst = si THEN "si_collect" ELSE "sfi_collect")
              /\ idx >= 1 /\ idx <= Len(inst.members)) =>
             LET a == inst.members[idx]
             IN construct_contribution_prompt(agents[a], base_get_group_state(inst, a)) =
                    [round_number |-> current_round,
                     institution |-> ScriptedChoice(a, current_round),
                     cumulative_payoff |-> CumulativeBefore(current_round, a),
                     past_actions |-> RecordedPastActions(a, current_round),
                     anonymous_data |-> RecordedAnonymousData(a, current_round)]
    /\ \A r \in 1 .. Len(results) :
          LET in_si == {a \in AgentIds : ScriptedChoice(a, r) = "SI"}
              in_sfi == AgentIds \ in_si
          IN /\ Range(results[r].si_members) = in_si
             /\ Range(results[r].sfi_members) = in_sfi
             /\ results[r].si_total_contribution = ScriptedTotal(in_si, r)
             /\ results[r].sfi_total_contribution = ScriptedTotal(in_sfi, r)
             /\ \A a \in AgentIds :
                   /\ results[r].agents[a].institution_choice = ScriptedChoice(a, r)
                   /\ results[r].agents[a].contribution = ScriptedContribution(a, r)
                   /\ IF a \in in_si
                      THEN IsStageOnePayoff(results[r].agents[a].stage1_payoff,
                                            ScriptedContribution(a, r),
                                            ScriptedTotal(in_si, r), Cardinality(in_si))
                      ELSE IsStageOnePayoff(results[r].agents[a].stage1_payoff,
                                            ScriptedContribution(a, r),
                                            ScriptedTotal(in_sfi, r), Cardinality(in_sfi))

\* C26 happens: in round 2 the second member of SI is about to be asked
\* for its contribution when the first has already contributed, and the
\* record of round 1 is what its prompt draws on.
OrderIndependentStageOneWitness ==
    /\ pc = "si_collect"
    /\ idx = 2
    /\ current_round = 2
    /\ Len(si.anonymized_contributions) = 1
    /\ si.anonymized_contributions[1] > 0
    /\ Len(construct_contribution_prompt(agents[si.members[2]],
                                         base_get_group_state(si, si.members[2])).past_actions) = 1

\* The allocations the parser makes of the answer the oracle of member p
\* holds for round r, given the SI membership.
ScriptedAllocations(p, r, members) ==
    parse_punishment_response(ScriptedAnswer(p, r, "allocation"),
                              SelectSeq(members, LAMBDA m : m # p))

\* matrix holds exactly the cells [target][actor] of the members that have
\* decided, each with the tokens of the actor's own allocations.
CellsOfDeciders(matrix, field) ==
    \A target, actor \in AgentIds :
        LET written == target \in DOMAIN matrix /\ actor \in DOMAIN matrix[target]
            allocations == ScriptedAllocations(actor, current_round, si.members)[field]
        IN /\ written <=> (actor \in decided /\ target \in DOMAIN allocations)
           /\ written => matrix[target][actor] = allocations[target]

\* The cells of matrix whose actor is not the deciding member are the same
\* in later as in earlier.
OtherActorsUntouched(earlier, later, deciding) ==
    \A target, actor \in AgentIds :
        actor # deciding =>
            LET was == target \in DOMAIN earlier /\ actor \in DOMAIN earlier[target]
                is == target \in DOMAIN later /\ actor \in DOMAIN later[target]
            IN /\ was <=> is
               /\ was => later[target][actor] = earlier[target][actor]

\* C27: the prompt of a deciding member of SI shows the contributions of
\* the other members as stage one left them and nothing of another
\* member's allocations of the round; its decision writes only cells whose
\* actor is the deciding member; so the two matrices hold, for the members
\* that have decided, what their own answers determine, whatever the order
\* of deciding.
OrderIndependentDecisions ==
    /\ [](pc = "handle" /\ idx <= Len(si.members) =>
             LET a == si.members[idx]
                 others == get_group_state(si, a)
             IN punishment_prompt(agents[a], others, agents) =
                    [round_number |-> current_round,
                     institution |-> "SI",
                     cumulative_payoff |-> CumulativeBefore(current_round, a),
                     past_actions |-> RecordedPastActions(a, current_round),
                     contributions |->
                         [i \in 1 .. Len(others) |->
                             ScriptedContribution(others[i], current_round)],
                     anonymous_data |-> RecordedAnonymousData(a, current_round)])
    /\ [](StageOf(pc) >= 5 \/ (pc = "idle" /\ current_round >= 1) =>
             /\ CellsOfDeciders(si.punishment_matrix, "punishment_allocations")
             /\ CellsOfDeciders(si.reward_matrix, "reward_allocations"))
    /\ [][pc = "handle" /\ idx <= Len(si.members) =>
             /\ OtherActorsUntouched(si.punishment_matrix, si'.punishment_matrix,
                                     si.members[idx])
             /\ OtherActorsUntouched(si.reward_matrix, si'.reward_matrix,
                                     si.members[idx])
             /\ \A a \in AgentIds \ {si.members[idx]} : agents'[a] = agents[a]]_vars

\* C27 happens: in an SI of three the second member is about to decide
\* when the first has already written its cells, and the third decides
\* after both.
OrderIndependentDecisionsWitness ==
    /\ pc = "handle"
    /\ idx = 3
    /\ si.members = <<0, 1, 2>>
    /\ decided = {0, 1}
    /\ si.punishment_matrix = (1 :> (0 :> 5)) @@ (0 :> (1 :> 5))

\* The position of agent m in the list of the members of SI.
PositionInSi(m) == CHOOSE i \in 1 .. Len(si.members) : si.members[i] = m

\* C28: the alias mapping an SI member builds for an allocation request
\* maps 1..K one-to-one onto the other members of SI of the current round,
\* in membership order, with K = size of SI - 1; it leaves the requester
\* out, owes nothing to the mapping of an earlier round, and is empty from
\* the agent's reset until its request.
AliasMappingBijection ==
    /\ \A a \in decided :
          LET mapping == agents[a].anonymized_id_mapping
              K == Len(si.members) - 1
          IN /\ a \in Range(si.members)
             /\ Len(mapping) = K
             /\ Range(mapping) = Range(si.members) \ {a}
             /\ \A i, j \in 1 .. K :
                   i < j => PositionInSi(mapping[i]) < PositionInSi(mapping[j])
    /\ \A i \in 1 .. NumAgents :
          LET a == AgentList[i]
              reset == \/ StageOf(pc) = 2 /\ (i < idx \/ (i = idx /\ pc = "choose"))
                       \/ StageOf(pc) >= 3
                       \/ pc = "idle" /\ current_round >= 1
          IN reset /\ a \notin decided => agents[a].anonymized_id_mapping = << >>

\* C28 happens: in round 2 agent 1 has made its request in an SI of three
\* and its mapping names agents 0 and 2, after a round 1 in which SI held
\* agents 0 and 1 only.
AliasMappingBijectionWitness ==
    /\ pc = "apply"
    /\ current_round = 2
    /\ si.members = <<0, 1, 2>>
    /\ results[1].si_members = <<0, 1>>
    /\ agents[1].anonymized_id_mapping = <<0, 2>>
    /\ agents[2].anonymized_id_mapping = <<0, 1>>

\* The tokens a group of members assigns to target in round r by their own
\* answers, in the mapping named field.
RECURSIVE ScriptedTokens(_, _, _, _, _)
ScriptedTokens(group, r, members, field, target) ==
    IF group = {} THEN 0
    ELSE LET p == CHOOSE q \in group : TRUE
             allocations == ScriptedAllocations(p, r, members)[field]
         IN (IF target \in DOMAIN allocations THEN allocations[target] ELSE 0)
            + ScriptedTokens(group \ {p}, r, members, field, target)

\* C29: when a round starts, after the two resets, both institutions have
\* no members, total contribution 0 and no stage-one payoffs, and the two
\* matrices of SI are empty; the received totals and the payoffs recorded
\* for a round are those the memberships, contributions and allocations of
\* that round alone determine.
RoundsStartClean ==
    /\ pc = "reset_agent" /\ idx = 1 =>
          \A inst \in {si, sfi} :
              /\ inst.members = << >>
              /\ inst.total_contribution = 0
              /\ inst.group_size = 0
              /\ inst.round_number = current_round
              /\ inst.stage1_payoffs = EmptyDict
              /\ inst.anonymized_contributions = << >>
              /\ inst.punishment_matrix = EmptyDict
              /\ inst.reward_matrix = EmptyDict
    /\ \A r \in 1 .. Len(results) : \A a \in AgentIds :
          LET record == results[r]
              data == record.agents[a]
              members == record.si_members
              in_si == Range(members)
              group == IF a \in in_si THEN in_si ELSE Range(record.sfi_members)
              punished == ScriptedTokens(in_si, r, members, "punishment_allocations", a)
              rewarded == ScriptedTokens(in_si, r, members, "reward_allocations", a)
              own == ScriptedAllocations(a, r, members)
              spent == SumValues(own.punishment_allocations)
                       + SumValues(own.reward_allocations)
          IN /\ data.received_punishments =
                    IF a \in in_si THEN PUNISHMENT_EFFECT * punished ELSE 0
             /\ data.received_rewards =
                    IF a \in in_si THEN REWARD_EFFECT * rewarded ELSE 0
             /\ IsStageOnePayoff(data.stage1_payoff, ScriptedContribution(a, r),
                                 ScriptedTotal(group, r), Cardinality(group))
             /\ data.stage2_payoff =
                    IF a \in in_si
                    THEN Scale * (ENDOWMENT_STAGE_2 - spent
                                  + REWARD_EFFECT * rewarded
                                  - PUNISHMENT_EFFECT * punished)
                    ELSE Scale * ENDOWMENT_STAGE_2
             /\ data.payoff = data.stage1_payoff + data.stage2_payoff

\* C29 happens: round 1 left members, a total and punishments in SI; round
\* 2 has just reset both institutions and its first agent is to be reset.
RoundsStartCleanWitness ==
    /\ pc = "reset_agent"
    /\ idx = 1
    /\ current_round = 2
    /\ si.members = << >>
    /\ si.punishment_matrix = EmptyDict
    /\ Len(results[1].si_members) = 3
    /\ results[1].si_total_contribution > 0
    /\ results[1].agents[0].received_punishments > 0

\* C30: the cumulative payoff of an agent is lower after a round than
\* before it only if other members assigned it punishment tokens in that
\* round, so that it received a nonzero punishment effect; for every
\* member of SFI and every member of SI that was not punished it does not
\* decrease.
PayoffFallsOnlyByPunishment ==
    \A r \in 1 .. Len(results) : \A a \in AgentIds :
        LET data == results[r].agents[a]
            punished == TokensAssignedTo(results[r], "assigned_punishments", a, NumAgents)
        IN /\ data.cumulative_payoff < CumulativeBefore(r, a) =>
                 /\ punished > 0
                 /\ data.received_punishments > 0
                 /\ data.institution_choice = "SI"
           /\ data.institution_choice = "SFI" =>
                 data.cumulative_payoff >= CumulativeBefore(r, a)
           /\ punished = 0 => data.cumulative_payoff >= CumulativeBefore(r, a)

\* C30 happens: in one round a punished member of SI ends below where it
\* began, while a member that spent its whole budget on others and was not
\* punished does not.
PayoffFallsOnlyByPunishmentWitness ==
    \E r \in 1 .. Len(results) : \E a, b \in AgentIds :
        /\ results[r].agents[a].cumulative_payoff < CumulativeBefore(r, a)
        /\ results[r].agents[a].received_punishments > 0
        /\ results[r].agents[b].institution_choice = "SI"
        /\ results[r].agents[b].received_punishments = 0
        /\ SumValues(results[r].agents[b].assigned_punishments) = ENDOWMENT_STAGE_2
        /\ results[r].agents[b].cumulative_payoff >= CumulativeBefore(r, b)
\* What an entry of the results or of a history shows when it is read:
\* its own fields and the contents of the two dicts it holds.
Shown(p, entry) ==
    [round_number |-> entry.round_number,
     assigned_punishments |-> p.heap[entry.assigned_punishments],
     assigned_rewards |-> p.heap[entry.assigned_rewards]]

\* C31: once a round record has been appended to the results, no later
\* step (the agent's reset, its later allocation decisions, the records of
\* later rounds) changes what the record shows, the assigned-punishment and
\* assigned-reward maps it holds included; the same holds for the entries
\* of the agent's own history.
RoundRecordsImmutable ==
    [][(probe.phase = "objects" /\ probe'.phase = "objects") =>
          /\ Len(probe'.results) >= Len(probe.results)
          /\ Len(probe'.agent.history) >= Len(probe.agent.history)
          /\ \A r \in 1 .. Len(probe.results) :
                Shown(probe', probe'.results[r]) = Shown(probe, probe.results[r])
          /\ \A r \in 1 .. Len(probe.agent.history) :
                Shown(probe', probe'.agent.history[r])
                    = Shown(probe, probe.agent.history[r])]_vars

\* A record that shows a punishment is still held while the agent, reset
\* and asked again in a later round, holds other dicts.
RoundRecordsImmutableWitness ==
    /\ probe.phase = "objects"
    /\ probe.step = "record"
    /\ \E r \in 1 .. Len(probe.results) :
          /\ probe.results[r].round_number < probe.round
          /\ Shown(probe, probe.results[r]).assigned_punishments # EmptyDict
          /\ Shown(probe, probe.agent.history[r]) = Shown(probe, probe.results[r])
          /\ probe.agent.assigned_punishments # probe.results[r].assigned_punishments
          /\ probe.heap[probe.agent.assigned_punishments]
                 # probe.heap[probe.results[r].assigned_punishments]
\* The record of agent a in round r shows no sanction at all.
Unsanctioned(data) ==
    /\ data.stage2_payoff = Scale * ENDOWMENT_STAGE_2
    /\ data.received_punishments = 0
    /\ data.received_rewards = 0
    /\ data.assigned_punishments = EmptyDict
    /\ data.assigned_rewards = EmptyDict

\* C32: in every round record every member of SFI has the stage-two payoff
\* ENDOWMENT_STAGE_2, received punishment and reward totals 0 and empty
\* assigned-punishment and assigned-reward maps, whatever it assigned or
\* received in earlier rounds as a member of SI.
SfiMembersUnsanctioned ==
    \A r \in 1 .. Len(results) :
       \A a \in Range(results[r].sfi_members) :
          /\ results[r].agents[a].institution_choice = "SFI"
          /\ Unsanctioned(results[r].agents[a])
          /\ Len(agents[a].history) >= r => Unsanctioned(agents[a].history[r])

\* An agent recorded in SFI that an earlier record shows in SI, punished
\* and punishing.
SfiMembersUnsanctionedWitness ==
    \E r \in 2 .. Len(results) :
       \E a \in Range(results[r].sfi_members) :
          \E q \in 1 .. (r - 1) :
             /\ a \in Range(results[q].si_members)
             /\ results[q].agents[a].received_punishments > 0
             /\ results[q].agents[a].assigned_punishments # EmptyDict
             /\ results[q].agents[a].stage2_payoff # Scale * ENDOWMENT_STAGE_2
\* C33: a round in which an institution has no member, or in which SI has
\* exactly one, still completes.  The empty institution has total and
\* average contribution 0 and average payoff 0 in the feedback; a lone SI
\* member is shown an empty roster of peers, records no allocation,
\* receives none and has the stage-two payoff ENDOWMENT_STAGE_2.
EmptyAndLoneInstitutions ==
    /\ pc # "aborted"
    /\ pc = "idle" => Len(results) = current_round
    /\ \A r \in 1 .. Len(results) :
          /\ results[r].round_number = r
          /\ results[r].si_members = << >> =>
                /\ results[r].si_total_contribution = 0
                /\ results[r].si_avg_contribution = 0
                /\ \A a \in AgentIds :
                      Len(agents[a].history) >= r => agents[a].history[r].avg_payoff_SI = 0
          /\ results[r].sfi_members = << >> =>
                /\ results[r].sfi_total_contribution = 0
                /\ results[r].sfi_avg_contribution = 0
                /\ \A a \in AgentIds :
                      Len(agents[a].history) >= r => agents[a].history[r].avg_payoff_SFI = 0
          /\ Len(results[r].si_members) = 1 =>
                Unsanctioned(results[r].agents[results[r].si_members[1]])
    /\ (pc \in {"handle", "apply", "payoffs_si"} /\ Len(si.members) = 1) =>
          /\ get_group_state(si, si.members[1]) = << >>
          /\ agents[si.members[1]].anonymized_id_mapping = << >>
          /\ si.punishment_matrix = EmptyDict
          /\ si.reward_matrix = EmptyDict

\* The records hold a round in which SI was empty, one in which SFI was
\* empty, and one whose lone SI member answered with punishments.
EmptyAndLoneInstitutionsWitness ==
    /\ \E r \in 1 .. Len(results) : results[r].si_members = << >>
    /\ \E r \in 1 .. Len(results) : results[r].sfi_members = << >>
    /\ \E r \in 1 .. Len(results) :
          /\ Len(results[r].si_members) = 1
          /\ LET response == ScriptedAnswer(results[r].si_members[1], r, "allocation")
             IN response.json /\ response.punishments # << >>
\* The sum of the round payoffs recorded for agent a in rounds 1 .. r.
RECURSIVE RecordedPayoffSum(_, _)
RecordedPayoffSum(a, r) ==
    IF r = 0 THEN 0
    ELSE RecordedPayoffSum(a, r - 1) + results[r].agents[a].payoff

\* C34: for every agent and every round R, the cumulative payoff stored in
\* the record of round R is INITIAL_TOKENS plus the sum of the agent's
\* recorded round payoffs of rounds 1 .. R; the recorded round payoff is
\* the recorded stage-one payoff plus the recorded stage-two payoff, and it
\* is the amount that was added to the agent's cumulative payoff in that
\* round.
RecordedPayoffsAddUp ==
    /\ \A r \in 1 .. Len(results) : \A a \in AgentIds :
          /\ results[r].agents[a].cumulative_payoff =
                 INITIAL_TOKENS * Scale + RecordedPayoffSum(a, r)
          /\ results[r].agents[a].payoff =
                 results[r].agents[a].stage1_payoff + results[r].agents[a].stage2_payoff
    /\ (pc = "idle" /\ Len(results) = current_round /\ current_round >= 1) =>
          \A a \in AgentIds :
             /\ agents[a].round_payoff = results[current_round].agents[a].payoff
             /\ agents[a].cumulative_payoff =
                    CumulativeBefore(current_round, a) + agents[a].round_payoff
             /\ agents[a].cumulative_payoff =
                    results[current_round].agents[a].cumulative_payoff

\* Three rounds are recorded for an agent that was punished as a member of
\* SI in one and sat in SFI in another, with three different round payoffs.
RecordedPayoffsAddUpWitness ==
    /\ pc = "idle"
    /\ Len(results) = 3
    /\ \E a \in AgentIds :
          /\ \E r \in 1 .. 3 :
                /\ results[r].agents[a].institution_choice = "SI"
                /\ results[r].agents[a].received_punishments > 0
          /\ \E r \in 1 .. 3 : results[r].agents[a].institution_choice = "SFI"
          /\ results[1].agents[a].payoff # results[2].agents[a].payoff
          /\ results[2].agents[a].payoff # results[3].agents[a].payoff
          /\ results[3].agents[a].cumulative_payoff =
                 INITIAL_TOKENS * Scale + results[1].agents[a].payoff
                   + results[2].agents[a].payoff + results[3].agents[a].payoff
\* The sum over the members of SI in a record of the amount in a field of
\* each member's data, and of the tokens in a map of each member's data.
ReceivedInSi(record, field) ==
    SumSeq([i \in 1 .. Len(record.si_members) |->
               record.agents[record.si_members[i]][field]])
AssignedInSi(record, field) ==
    SumSeq([i \in 1 .. Len(record.si_members) |->
               SumValues(record.agents[record.si_members[i]][field])])

\* C35: in every round, the sum over the members of SI of the punishment
\* effect received is PUNISHMENT_EFFECT times the sum over the members of
\* SI of the punishment tokens they assigned, and the sum of the reward
\* effect received is REWARD_EFFECT times the sum of the reward tokens
\* assigned: no assigned token is lost or credited twice.
AssignedTokensConserved ==
    /\ \A r \in 1 .. Len(results) :
          /\ ReceivedInSi(results[r], "received_punishments")
               = PUNISHMENT_EFFECT
                   * AssignedInSi(results[r], "assigned_punishments")
          /\ ReceivedInSi(results[r], "received_rewards")
               = REWARD_EFFECT
                   * AssignedInSi(results[r], "assigned_rewards")
    /\ pc \in {"payoffs_si", "payoffs_sfi", "record"} =>
          /\ SumSeq([i \in 1 .. Len(si.members) |-> agents[si.members[i]].received_punishments])
               = PUNISHMENT_EFFECT
                   * SumSeq([i \in 1 .. Len(si.members) |->
                                SumValues(agents[si.members[i]].assigned_punishments)])
          /\ SumSeq([i \in 1 .. Len(si.members) |-> agents[si.members[i]].received_rewards])
               = REWARD_EFFECT
                   * SumSeq([i \in 1 .. Len(si.members) |->
                                SumValues(agents[si.members[i]].assigned_rewards)])

\* A record in which two members of SI punished the same third member and
\* rewards were given as well.
AssignedTokensConservedWitness ==
    \E r \in 1 .. Len(results) :
       /\ \E target \in Range(results[r].si_members) :
             \E a, b \in Range(results[r].si_members) :
                /\ a # b
                /\ target \in DOMAIN results[r].agents[a].assigned_punishments
                /\ target \in DOMAIN results[r].agents[b].assigned_punishments
                /\ results[r].agents[a].assigned_punishments[target] > 0
                /\ results[r].agents[b].assigned_punishments[target] > 0
       /\ ReceivedInSi(results[r], "received_rewards") > 0
\* The entry's alias resolves to a peer and int() rejects its amount.
BadAmount(entry, members) ==
    ~Unresolvable(entry, members) /\ ~IntOf(entry.tokens).ok

\* The budget left before the i-th entry of a mapping whose loop starts
\* with start tokens, when no amount before it is rejected: every entry
\* with a resolvable alias takes max(0, min(amount, left)).
RECURSIVE LeftBefore(_, _, _, _)
LeftBefore(entries, members, start, i) ==
    IF i = 1 THEN start
    ELSE LET left == LeftBefore(entries, members, start, i - 1)
             entry == entries[i - 1]
         IN IF Unresolvable(entry, members) \/ ~IntOf(entry.tokens).ok THEN left
            ELSE left - Max(0, Min(IntOf(entry.tokens).v, left))

\* The loop over a mapping gets to its i-th entry: no entry before it with
\* a resolvable alias has left the budget at 0 (the loop's break).
Reaches(entries, members, start, i) ==
    \A k \in 1 .. (i - 1) :
       Unresolvable(entries[k], members)
          \/ LeftBefore(entries, members, start, k + 1) > 0

\* Some amount that int() rejects is converted: one in the punishments
\* that their loop gets to, or one in the rewards that their loop gets to
\* once the punishments loop has ended without one.
ConvertsBadAmount(response, members) ==
    LET punishments == response.punishments
        rewards == response.rewards
        bad_punishment ==
            \E i \in 1 .. Len(punishments) :
               /\ BadAmount(punishments[i], members)
               /\ Reaches(punishments, members, ENDOWMENT_STAGE_2, i)
        left == LeftBefore(punishments, members, ENDOWMENT_STAGE_2,
                           Len(punishments) + 1)
    IN \/ bad_punishment
       \/ \E j \in 1 .. Len(rewards) :
             /\ BadAmount(rewards[j], members)
             /\ Reaches(rewards, members, left, j)

\* The response without the entries that hold a rejected amount for a
\* resolvable alias.
WithoutBadAmounts(response, members) ==
    [response EXCEPT
        !.punishments = SelectSeq(@, LAMBDA entry : ~BadAmount(entry, members)),
        !.rewards = SelectSeq(@, LAMBDA entry : ~BadAmount(entry, members))]

\* C36 as stated: whenever a parsable allocation response holds, for an
\* alias that resolves to a peer, a token amount that cannot be converted
\* to an integer, the punishment and reward maps and the reasoning stored
\* are empty.
AnyBadAmountEmptiesResult ==
    (probe.phase = "returned" /\ probe.response.json /\ ~probe.response.badmap) =>
        LET response == probe.response
            members == probe.members
        IN (\/ \E i \in 1 .. Len(response.punishments) :
                  BadAmount(response.punishments[i], members)
            \/ \E j \in 1 .. Len(response.rewards) :
                  BadAmount(response.rewards[j], members))
           => /\ probe.agent.assigned_punishments = EmptyDict
              /\ probe.agent.assigned_rewards = EmptyDict
              /\ probe.agent.punishment_reasoning = ""

\* C36, amended: when a parsable allocation response holds, for an alias
\* that resolves to a peer, an amount that cannot be converted to an integer
\* in an entry its loop gets to, the punishment and reward maps and the
\* reasoning stored are empty, the entries already processed included, and
\* nothing is raised to the round.  An entry behind the one that used the
\* budget up in its mapping is never converted: a rejected amount there
\* changes nothing, and the result is that of the response without it.
BadAmountEmptiesResult ==
    (probe.phase = "returned" /\ probe.response.json /\ ~probe.response.badmap) =>
        LET response == probe.response
            members == probe.members
            stored == <<probe.agent.assigned_punishments,
                        probe.agent.assigned_rewards,
                        probe.agent.punishment_reasoning>>
        IN /\ ~parse_punishment_response(response, members).raised
           /\ IF ConvertsBadAmount(response, members)
              THEN stored = <<EmptyDict, EmptyDict, "">>
              ELSE /\ stored = Stored(parse_punishment_response(
                                         WithoutBadAmounts(response, members), members))
                   /\ probe.agent.punishment_reasoning = response.reasoning

\* C36 happens: with two peers shown, a punishment of 12 tokens for alias 1
\* has been processed when the reward for alias 2 holds an amount int()
\* rejects; nothing of the response is stored.
BadAmountEmptiesResultWitness ==
    /\ probe.phase = "returned"
    /\ probe.members = <<1, 2>>
    /\ probe.response = AllocResponse(
                            <<Entry(Key("plain", 1), Val("int", 12))>>,
                            <<Entry(Key("plain", 2), Bad)>>)
    /\ AfterPunishments(probe.response, probe.members, 1).alloc = (1 :> 12)
    /\ probe.agent.assigned_punishments = EmptyDict
    /\ probe.agent.assigned_rewards = EmptyDict
    /\ probe.agent.punishment_reasoning = ""
\* The positions at which a list of results holds the result of a run.
PositionsOf(list, run) == {i \in 1 .. Len(list) : list[i].run_id = run}

\* C37: in a sweep every submitted run configuration is recorded exactly
\* once: in completed_runs when its process exited with code 0 (and
\* nothing raised), in failed_runs otherwise, with the status failed for
\* another exit code, timeout for a process killed after the timeout and
\* error for an exception; its entry is in active_processes while its
\* process is waited for and removed when it ends; and when run_sweep
\* finishes, len(completed_runs) + len(failed_runs) == total_runs and
\* active_processes is empty.
EveryRunRecordedOnce ==
    probe.phase = "sweep" =>
        /\ \A run \in DOMAIN probe.runs :
              LET r == probe.runs[run]
                  completed == Cardinality(PositionsOf(probe.completed_runs, run))
                  failed == Cardinality(PositionsOf(probe.failed_runs, run))
                  expected ==
                      IF ~r.started THEN "error"
                      ELSE IF r.outcome.timed_out THEN "timeout"
                      ELSE IF r.outcome.return_code # 0 THEN "failed"
                      ELSE IF r.outcome.raises THEN "error"
                      ELSE "success"
              IN /\ completed + failed = IF r.pc = "recorded" THEN 1 ELSE 0
                 /\ r.pc \in {"done", "recorded"} =>
                       /\ r.result.run_id = run
                       /\ r.result.status = expected
                 /\ r.pc = "recorded" =>
                       /\ completed = 1 <=> r.result.status = "success"
                       /\ completed = 1 <=>
                             (r.started /\ ~r.outcome.timed_out
                                /\ r.outcome.return_code = 0 /\ ~r.outcome.raises)
                       /\ \A i \in PositionsOf(probe.completed_runs, run) :
                             probe.completed_runs[i] = r.result
                       /\ \A i \in PositionsOf(probe.failed_runs, run) :
                             probe.failed_runs[i] = r.result
                 /\ run \in probe.active_processes <=> r.pc = "waiting"
        /\ probe.active_processes \subseteq DOMAIN probe.runs
        /\ probe.pc = "finished" =>
              /\ Len(probe.completed_runs) + Len(probe.failed_runs) = probe.total_runs
              /\ probe.active_processes = {}

\* A sweep of three runs has finished: one is filed as completed, and a
\* timeout and a non-zero exit are filed as failed.
EveryRunRecordedOnceWitness ==
    /\ probe.phase = "sweep"
    /\ probe.pc = "finished"
    /\ probe.total_runs = 3
    /\ Len(probe.completed_runs) = 1
    /\ \E i, j \in 1 .. Len(probe.failed_runs) :
          /\ probe.failed_runs[i].status = "timeout"
          /\ probe.failed_runs[j].status = "failed"

\* C38: a run that fails is retried, up to retry_attempts times, before it
\* is reported as failed: a run filed in failed_runs has been started once
\* and retry_attempts times more.
FailedRunsWereRetried ==
    probe.phase = "sweep" =>
        \A i \in 1 .. Len(probe.failed_runs) :
           probe.runs[probe.failed_runs[i].run_id].attempts = 1 + retry_attempts

====
